---------------------------- MODULE Spec2Model ----------------------------
(***************************************************************************)
(* Verified-narration pipeline of "Are We There Yet?".                     *)
(*                                                                         *)
(* Part 1: fact acquisition.  The serverless functions /api/fun-fact,      *)
(* /api/verify-fact and /api/speak, and the browser services getFunFact    *)
(* and verifyFact that call them (or call the provider directly when a     *)
(* development key is configured).                                         *)
(*                                                                         *)
(* Part 2: narration.  The speech service (speak, processQueue,            *)
(* fetchAndPlayAudio, fallbackToWebSpeech, stopSpeaking), the persistent   *)
(* audio element and the speechSynthesis object of the browser.            *)
(*                                                                         *)
(* Part 3: triggers.  The components App, FunFactCard and ArrivalModal:    *)
(* their React state, refs and effects, the debounce timer of the position *)
(* effect and the asynchronous functions the effects start.                *)
(*                                                                         *)
(* JavaScript values are tagged records; strings are sequences of tokens   *)
(* so that trim(), split(',') and the code-fence regular expression are    *)
(* computed, not assumed.                                                  *)
(***************************************************************************)
EXTENDS Integers, Sequences, FiniteSets, Bags, TLC

\* ------------------------------------------------------------------------
\* Bounds of the model and constants of the program
\* ------------------------------------------------------------------------

\* Largest confidence value an upstream verifier answer carries in the model.
MaxConfidence == 10

\* Number of speak() calls of a page session in the model.
MaxRequests == 3

\* Number of asynchronous functions of the components in flight at once in
\* the model.
MaxTasks == 2

\* Minutes since the last fact that the model tells apart; the clock of the
\* model advances by five minutes.
MaxMinutes == 10

\* api/fun-fact.js:16
MAX_VERIFICATION_ATTEMPTS == 3

\* `result.confidence >= 7` (self-assessment)
SelfThreshold == 7

\* `result.verified === true && result.confidence >= 5` (serverless, search)
SearchThresholdServer == 5

\* `result.verified === true && result.confidence >= 6` (browser, search)
SearchThresholdClient == 6

\* ------------------------------------------------------------------------
\* JavaScript values
\* ------------------------------------------------------------------------

Undef == [t |-> "undefined"]
Null == [t |-> "null"]
Str(s) == [t |-> "string", s |-> s]
Num(n) == [t |-> "number", n |-> n]
Bool(b) == [t |-> "boolean", b |-> b]
Arr(a) == [t |-> "array", a |-> a]
Obj(f) == [t |-> "object", f |-> f]

\* The object {} : a record cannot be empty, so every object of the model
\* carries the field "_" that no code reads.
EmptyObj == Obj([_ |-> Undef])

\* JavaScript truthiness, as used by `!x` and `a || b`.
Truthy(v) ==
  CASE v.t = "undefined" -> FALSE
    [] v.t = "null" -> FALSE
    [] v.t = "string" -> v.s # << >>
    [] v.t = "number" -> v.n # 0
    [] v.t = "boolean" -> v.b
    [] OTHER -> TRUE

\* a || b
Or(a, b) == IF Truthy(a) THEN a ELSE b

\* Reading a property of null or undefined throws a TypeError.
CanRead(v) == v.t \notin {"undefined", "null"}

\* o.name for a value whose properties can be read.
Get(o, name) ==
  IF o.t = "object" /\ name \in DOMAIN o.f THEN o.f[name] ELSE Undef

\* a[0]
First(v) == IF v.t = "array" /\ v.a # << >> THEN v.a[1] ELSE Undef

\* v >= n for a number n: undefined compares as NaN, null as 0.
GE(v, n) ==
  CASE v.t = "number" -> v.n >= n
    [] v.t = "null" -> 0 >= n
    [] OTHER -> FALSE

\* Result of an expression that may throw.
Ok(v) == [threw |-> FALSE, v |-> v]
Threw == [threw |-> TRUE, v |-> Undef]

\* ------------------------------------------------------------------------
\* Strings: sequences of tokens
\* ------------------------------------------------------------------------

WS == [c |-> "ws"]
FENCE == [c |-> "fence"]
COMMA == [c |-> "comma"]
W(w) == [c |-> "word", w |-> w]
\* The text of the JSON value o.
J(o) == [c |-> "json", o |-> o]

RECURSIVE trimStart(_)
trimStart(s) == IF s # << >> /\ s[1].c = "ws" THEN trimStart(Tail(s)) ELSE s

RECURSIVE trimEnd(_)
trimEnd(s) ==
  IF s # << >> /\ s[Len(s)].c = "ws" THEN trimEnd(SubSeq(s, 1, Len(s) - 1)) ELSE s

\* String.prototype.trim
trim(s) == trimEnd(trimStart(s))

\* s.split(',')[0]
RECURSIVE splitFirst(_)
splitFirst(s) ==
  IF s = << >> \/ s[1].c = "comma" THEN << >> ELSE <<s[1]>> \o splitFirst(Tail(s))

\* text.includes('```')
includesFence(s) == \E i \in DOMAIN s : s[i].c = "fence"

Min(S) == CHOOSE x \in S : \A y \in S : x <= y

RECURSIVE skipWs(_, _, _)
skipWs(s, j, k) == IF j < k /\ s[j].c = "ws" THEN skipWs(s, j + 1, k) ELSE j

\* text.match(/```(?:json)?\s*([\s\S]*?)```/): the first fence, an optional
\* "json", optional white space, then lazily everything up to the next fence.
fenceMatch(s) ==
  LET fences == {i \in DOMAIN s : s[i].c = "fence"}
  IN IF Cardinality(fences) < 2
       THEN [matched |-> FALSE, group |-> << >>]
       ELSE LET i == Min(fences)
                k == Min(fences \ {i})
                j0 == IF i + 1 < k /\ s[i + 1] = W("json") THEN i + 2 ELSE i + 1
                j == skipWs(s, j0, k)
            IN [matched |-> TRUE, group |-> SubSeq(s, j, k - 1)]

\* let jsonText = text; if (text.includes('```')) { match ...; if (match)
\* jsonText = match[1].trim() }
extractJsonText(text) ==
  IF includesFence(text) /\ fenceMatch(text).matched
    THEN trim(fenceMatch(text).group)
    ELSE text

\* JSON.parse: one JSON value, white space around it allowed; anything else
\* is a SyntaxError.
JSONparse(s) ==
  LET t == trim(s)
  IN IF Len(t) = 1 /\ t[1].c = "json" THEN Ok(t[1].o) ELSE Threw

\* ------------------------------------------------------------------------
\* fetch() and Response
\* ------------------------------------------------------------------------

\* fetch() rejects (network unreachable).
NetworkError == [net |-> "error"]
\* fetch() resolves with a Response.
Response(status, body) == [net |-> "ok", status |-> status, body |-> body]
\* A body that response.json() cannot parse.
NotJson == [json |-> FALSE]
JsonBody(d) == [json |-> TRUE, data |-> d]

\* response.ok
responseOk(r) == r.status \in 200..299

\* await response.json()
responseJson(r) == IF r.body.json THEN Ok(r.body.data) ELSE Threw

\* JSON.stringify drops the properties whose value is undefined.
stringify(o) ==
  IF o.t = "object"
    THEN Obj([k \in {x \in DOMAIN o.f : x = "_" \/ o.f[x] # Undef} |-> o.f[k]])
    ELSE o

\* ------------------------------------------------------------------------
\* FactGenerator
\* ------------------------------------------------------------------------

\* data.content[0].text.trim()
contentFirstText(data) ==
  IF ~CanRead(data) THEN Threw
  ELSE LET content == Get(data, "content")
       IN IF ~CanRead(content) THEN Threw
          ELSE LET block == First(content)
               IN IF ~CanRead(block) THEN Threw
                  ELSE LET text == Get(block, "text")
                       IN IF text.t # "string" THEN Threw
                          ELSE Ok(Str(trim(text.s)))

\* generateFact of /api/fun-fact for the upstream outcome u: it has no
\* try/catch of its own, so a network error, a non-2xx status, an unparsable
\* body and a body without content[0].text all throw.
generateFact(u) ==
  IF u.net = "error" THEN Threw
  ELSE IF ~responseOk(u) THEN Threw
  ELSE LET data == responseJson(u)
       IN IF data.threw THEN Threw ELSE contentFirstText(data.v)

\* ------------------------------------------------------------------------
\* FactVerifier
\* ------------------------------------------------------------------------

\* The verification result {verified, confidence}.
Verification(verified, confidence) ==
  Obj([_ |-> Undef, verified |-> Bool(verified), confidence |-> confidence])

\* { verified: false, confidence: 0 }
SoftFail == Verification(FALSE, Num(0))

\* data.content.find(block => block.type === 'text')
findTextBlock(data) ==
  IF ~CanRead(data) THEN Threw
  ELSE LET content == Get(data, "content")
       IN IF content.t # "array" THEN Threw
          ELSE LET hits == {i \in DOMAIN content.a :
                              Get(content.a[i], "type") = Str(<<W("text")>>)}
               IN IF hits = {} THEN Ok(Undef) ELSE Ok(content.a[Min(hits)])

\* The comparison is strict: confidence > 7.
selfDecision_strict(result) ==
  IF ~CanRead(result) THEN Threw
  ELSE Ok(Verification(GE(Get(result, "confidence"), SelfThreshold + 1),
                       Get(result, "confidence")))

\* Self-assessment: verified = confidence >= 7.
selfDecision(result) ==
  IF ~CanRead(result) THEN Threw
  ELSE Ok(Verification(GE(Get(result, "confidence"), SelfThreshold),
                       Get(result, "confidence")))

\* The explicit flag is ignored: verified = confidence >= threshold.
searchDecision_flagIgnored(result, threshold) ==
  IF ~CanRead(result) THEN Threw
  ELSE Ok(Verification(GE(Get(result, "confidence"), threshold),
                       Get(result, "confidence")))

\* Evidence search: verified = (verified === true) && confidence >= threshold.
searchDecision(result, threshold) ==
  IF ~CanRead(result) THEN Threw
  ELSE Ok(Verification(Get(result, "verified") = Bool(TRUE)
                         /\ GE(Get(result, "confidence"), threshold),
                       Get(result, "confidence")))

\* From the verifier's text to the decision: trim, strip the code fence,
\* JSON.parse, decide.
decide(strategy, threshold, text) ==
  LET result == JSONparse(extractJsonText(trim(text)))
  IN IF result.threw THEN Threw
     ELSE IF strategy = "self" THEN selfDecision(result.v)
     ELSE searchDecision(result.v, threshold)

\* The text the decision is taken from.  Self-assessment reads
\* data.content[0].text; evidence search reads the first block of type text
\* and fails soft when there is none.
verifierText(strategy, data) ==
  IF strategy = "self"
    THEN LET t == contentFirstText(data)
         IN IF t.threw THEN Threw ELSE Ok([found |-> TRUE, s |-> t.v.s])
    ELSE LET tb == findTextBlock(data)
         IN IF tb.threw THEN Threw
            ELSE IF ~Truthy(tb.v) THEN Ok([found |-> FALSE, s |-> << >>])
            ELSE IF Get(tb.v, "text").t # "string" THEN Threw
            ELSE Ok([found |-> TRUE, s |-> Get(tb.v, "text").s])

\* The statements inside the try block of a verifier, for the upstream
\* outcome u.  readsErrorBody: the non-2xx branch awaits response.json()
\* before it returns (every verifier but the one inside /api/fun-fact).
verifyTry(strategy, threshold, readsErrorBody, u) ==
  IF u.net = "error" THEN Threw
  ELSE IF ~responseOk(u)
    THEN IF readsErrorBody /\ responseJson(u).threw THEN Threw ELSE Ok(SoftFail)
  ELSE LET data == responseJson(u)
       IN IF data.threw THEN Threw
          ELSE LET t == verifierText(strategy, data.v)
               IN IF t.threw THEN Threw
                  ELSE IF ~t.v.found THEN Ok(SoftFail)
                  ELSE decide(strategy, threshold, t.v.s)

\* No catch: the exception leaves the verifier.
catchSoft_rethrows(r) == r

\* catch (error) { return { verified: false, confidence: 0 } }
catchSoft(r) == IF r.threw THEN Ok(SoftFail) ELSE r

\* verifyFact(apiKey, funFact, placeName) inside /api/fun-fact.
verifyFact_funFact(strategy, u) ==
  catchSoft(verifyTry(strategy, SearchThresholdServer, FALSE, u))

\* The verification of the /api/verify-fact handler.
verifyFact_handler(strategy, u) ==
  catchSoft(verifyTry(strategy, SearchThresholdServer, TRUE, u))

\* verifyFact(funFact, placeName) of the browser, calling the provider.
verifyFact_direct(strategy, u) ==
  catchSoft(verifyTry(strategy, SearchThresholdClient, TRUE, u))

\* verifyFact(funFact, placeName) of the browser, calling /api/verify-fact:
\* whatever JSON the function answered is returned as it is.
verifyFact_production(r) ==
  catchSoft(IF r.net = "error" THEN Threw
            ELSE IF ~responseOk(r) THEN Ok(SoftFail)
            ELSE responseJson(r))


\* ------------------------------------------------------------------------
\* Inputs and upstream outcomes of the model
\* ------------------------------------------------------------------------

Field(o, name, v) == Obj([k \in DOMAIN o.f \cup {name} |-> IF k = name THEN v ELSE o.f[k]])

\* "Springfield, Illinois", "Shelbyville" and the empty string.
PlaceNames ==
  { <<W("Springfield"), COMMA, WS, W("Illinois")>>, <<W("Shelbyville")>>, << >> }

\* Candidate texts as the generation capability writes them.
RawFacts == { <<WS, W("factA"), WS>>, <<W("factB")>> }

TextBlock(s) == Field(Field(EmptyObj, "type", Str(<<W("text")>>)), "text", Str(s))
ToolUseBlock == Field(EmptyObj, "type", Str(<<W("tool_use")>>))
\* The body of a provider answer: { content: [...] }
Message(blocks) == Field(EmptyObj, "content", Arr(blocks))
\* The body of a provider error: { error: { message } }
ErrorBody ==
  Field(EmptyObj, "error", Field(EmptyObj, "message", Str(<<W("overloaded")>>)))

\* Network error, non-2xx with and without a JSON body, 200 with an
\* unparsable body, 200 without content, 200 with an empty content, 200 with
\* a candidate.
GenResponses ==
  { NetworkError, Response(500, NotJson), Response(429, JsonBody(ErrorBody)),
    Response(200, NotJson), Response(200, JsonBody(EmptyObj)),
    Response(200, JsonBody(Message(<< >>))) }
  \cup { Response(200, JsonBody(Message(<<TextBlock(f)>>))) : f \in RawFacts }

Confidences == 0..MaxConfidence

\* {"confidence": c}
SelfAnswer(c) == Field(EmptyObj, "confidence", Num(c))
\* {"verified": b, "confidence": c}
SearchAnswer(b, c) == Field(SelfAnswer(c), "verified", Bool(b))

\* What the verifying capability may write as JSON.
VerifierAnswers ==
  { SelfAnswer(c) : c \in Confidences }
  \cup { SearchAnswer(b, c) : b \in BOOLEAN, c \in Confidences }
  \cup { Field(EmptyObj, "verified", Bool(TRUE)), EmptyObj, Null, Num(8),
         Field(SelfAnswer(9), "verified", Str(<<W("true")>>)) }

\* The answers also sent inside a code fence.
FencedAnswers ==
  { SelfAnswer(c) : c \in {SelfThreshold - 1, SelfThreshold} }
  \cup { SearchAnswer(TRUE, c) : c \in {SearchThresholdServer - 1, SearchThresholdServer, SearchThresholdClient} }

\* Raw JSON, JSON in a fence (with and without the json tag, with text before
\* it), an unclosed fence, prose.
VerifierTexts ==
  { <<J(a)>> : a \in VerifierAnswers }
  \cup { <<WS, FENCE, W("json"), WS, J(a), WS, FENCE, WS>> : a \in FencedAnswers }
  \cup { <<W("Sure"), WS, FENCE, J(a), FENCE>> : a \in FencedAnswers }
  \cup { <<FENCE, W("json"), WS, J(a)>> : a \in FencedAnswers }
  \cup { <<W("I"), WS, W("cannot"), WS, W("verify")>>, <<FENCE, W("json"), FENCE>> }

VerResponses ==
  { NetworkError, Response(500, NotJson), Response(529, JsonBody(ErrorBody)),
    Response(200, NotJson), Response(200, JsonBody(EmptyObj)),
    Response(200, JsonBody(Message(<< >>))),
    Response(200, JsonBody(Message(<<ToolUseBlock>>))) }
  \cup { Response(200, JsonBody(Message(<<TextBlock(t)>>))) : t \in VerifierTexts }
  \cup { Response(200, JsonBody(Message(<<ToolUseBlock, TextBlock(<<J(a)>>)>>))) :
           a \in FencedAnswers }

\* Speech synthesis outcomes: network error, provider error, audio.
Audio == [t |-> "audio"]
TtsResponses ==
  { NetworkError, Response(401, JsonBody(ErrorBody)), Response(503, NotJson),
    Response(200, [json |-> FALSE, audio |-> TRUE]) }


\* ------------------------------------------------------------------------
\* State
\* ------------------------------------------------------------------------

VARIABLES
  env,       \* deployment: isProduction (browser has no provider key),
             \* ANTHROPIC_API_KEY and OPENAI_API_KEY set on the server,
             \* strategy (which verifier variant is deployed)
  client,    \* the browser-side call in progress and its outcome
  req,       \* the HTTP request received by a serverless function
  h,         \* the locals of the running handler
  res,       \* the HTTP response of the handler (status 0: none yet)
  calls,     \* outbound calls made so far, per capability
  attempts,  \* history of the acquisition loop: one entry per attempt
  upstream,  \* what the last generation and verification fetches settled
             \* with: the class of the outcome and the parsed answer
  window,             \* the browser: is 'speechSynthesis' in window, and
                      \* the event it sends to an utterance removed by
                      \* cancel()
  persistentAudio,    \* the Audio element of speech.js (created: not null)
  currentBlobUrl,     \* the blob URL kept for cleanup (0: null)
  speechQueue,        \* the queued items, oldest first (request numbers)
  isProcessingQueue,  \* the processing flag
  requests,           \* one entry per speak() call: text, options, the
                      \* state of its promise, the position of the
                      \* processQueue invocation that took it
  utterances,         \* the SpeechSynthesisUtterances handed to the browser:
                      \* whose text, after whose failure, speaking or done
  objectUrls,         \* blob URLs created and not yet revoked
  heard,              \* the sounds that have started: request and path
  lastCall,           \* "stopSpeaking": it was called in the last step;
                      \* "stopped": callbacks have run since and speak()
                      \* was not called again; "other" otherwise
  app,         \* state and refs of App and ArrivalModal: destination,
               \* route, userPosition, showArrivalModal,
               \* celebratedDestinationRef, hasSpokenRef
  card,        \* state and refs of FunFactCard: funFact, lastPlace,
               \* isLoading, hasReadInitialFactRef, announcedDestinationRef
  debounce,    \* the pending timeout of the position effect, or Null: the
               \* position and lastPlace its closure has captured
  tasks,       \* the asynchronous functions in flight (a bag): which function, the
               \* await it is suspended at, and what it has captured or
               \* computed and will still read
  sinceFact,   \* the wall clock and the road: minutes since the last fact
               \* was shown and the mile at which it was acquired
  evaluation,  \* Null, or what the trigger evaluation that ran in the last
               \* step saw and whether it started an acquisition
  unhandled,   \* a rejected promise of speak() had no rejection handler
  panel,       \* ProgressPanel: the interval its effect has set (the
               \* minutes it has run), or Null, and the minutes the trip
               \* has been under way since the last progress announcement
  skipped      \* the last step was a fetchFunFact that got no place name

\* The state of the speech service and of the browser objects it drives.
narration ==
  <<window, persistentAudio, currentBlobUrl, speechQueue, isProcessingQueue,
    requests, utterances, objectUrls, heard, lastCall>>

\* The state of fact acquisition.
acquisition == <<env, client, req, h, res, calls, attempts, upstream>>

\* The state of the components.
trip ==
  <<app, card, debounce, tasks, sinceFact, evaluation, unhandled, panel, skipped>>

vars == <<env, client, req, h, res, calls, attempts, upstream, narration, trip>>

NoReq == [endpoint |-> "none", method |-> "none", body |-> EmptyObj]
NoRes == [status |-> 0, body |-> Undef]
Reply(status, body) == [status |-> status, body |-> body]
Error(message) == Field(EmptyObj, "error", Str(<<W(message)>>))
IdleHandler ==
  [pc |-> "idle", attempt |-> 0, fact |-> Undef, verification |-> Undef,
   selectedVoice |-> "none"]
IdleClient ==
  [fn |-> "none", pc |-> "idle", placeName |-> << >>, isDestination |-> FALSE,
   funFact |-> Undef, net |-> "none", out |-> [kind |-> "pending", value |-> Undef]]

Returned(v) == [kind |-> "returned", value |-> v]
Rejected == [kind |-> "threw", value |-> Undef]

\* let persistentAudio = null.  Once created: paused, the playback position,
\* the request whose blob URL is the src (0: none), the requests whose
\* closures are the onended and onerror handlers (0: none), and the state of
\* the media: idle, starting (play() called, its promise pending), playing,
\* ended, failed.
NoAudio ==
  [created |-> FALSE, paused |-> TRUE, currentTime |-> 0, src |-> 0,
   onended |-> 0, onerror |-> 0, media |-> "idle"]

\* The module-level state of speech.js when the page has loaded.
NarrationInit ==
  /\ persistentAudio = NoAudio
  /\ currentBlobUrl = 0
  /\ speechQueue = << >>
  /\ isProcessingQueue = FALSE
  /\ requests = << >>
  /\ utterances = {}
  /\ objectUrls = {}
  /\ heard = {}
  /\ lastCall = "other"

\* The components when the page has loaded: no destination, no position.
TripInit ==
  /\ app = [destination |-> Null, route |-> Null, userPosition |-> Null,
            showArrivalModal |-> FALSE, celebrated |-> 0, hasSpoken |-> FALSE]
  /\ card = [funFact |-> Null, lastPlace |-> Null, isLoading |-> FALSE,
             hasReadInitialFact |-> FALSE, announcedDestination |-> 0]
  /\ debounce = Null
  /\ tasks = EmptyBag
  /\ sinceFact = [minutes |-> 0, mile |-> 0]
  /\ evaluation = Null
  /\ unhandled = FALSE
  /\ panel = [interval |-> Null, waited |-> 0]
  /\ skipped = FALSE

Init ==
  /\ window = [speechSynthesis |-> TRUE, onCancel |-> "error"]
  /\ NarrationInit
  /\ TripInit
  /\ env \in [isProduction : BOOLEAN, ANTHROPIC_API_KEY : BOOLEAN,
              OPENAI_API_KEY : BOOLEAN, strategy : {"self", "search"}]
  /\ client = IdleClient
  /\ req = NoReq
  /\ h = IdleHandler
  /\ res = NoRes
  /\ calls = [generate |-> 0, verify |-> 0, speech |-> 0]
  /\ attempts = << >>
  /\ upstream = [gen |-> "none", ver |-> "none", answer |-> Undef]

\* ------------------------------------------------------------------------
\* /api/fun-fact
\* ------------------------------------------------------------------------

\* Off by one: the loop runs once more.
loopContinues_oneMore(attempt) == attempt <= MAX_VERIFICATION_ATTEMPTS + 1

\* for (let attempt = 1; attempt <= MAX_VERIFICATION_ATTEMPTS; attempt++)
loopContinues(attempt) == attempt <= MAX_VERIFICATION_ATTEMPTS

\* The credential check is skipped.
missingKey_funFact_skipped == FALSE

\* const apiKey = process.env.ANTHROPIC_API_KEY; if (!apiKey)
missingKey_funFact == ~env.ANTHROPIC_API_KEY

\* The early return is missing: the loop goes on after a verified candidate.
returnsCandidate_never(verification) == FALSE

\* if (verification.verified) return res.status(200).json({funFact: fact, ...})
returnsCandidate(verification) == Truthy(Get(verification, "verified"))

\* The class of a generation outcome.
genClass(u) ==
  IF u.net = "error" THEN "network"
  ELSE IF ~responseOk(u) THEN "status"
  ELSE IF ~u.body.json THEN "malformed"
  ELSE IF contentFirstText(u.body.data).threw THEN "malformed"
  ELSE "ok"

\* The class of a verification outcome, and the JSON value the verifier
\* wrote when its text parses.
sawVerification(strategy, u) ==
  LET none == [gen |-> "none", ver |-> "none", answer |-> Undef]
  IN IF u.net = "error" THEN [none EXCEPT !.ver = "network"]
     ELSE IF ~responseOk(u) THEN [none EXCEPT !.ver = "status"]
     ELSE IF ~u.body.json THEN [none EXCEPT !.ver = "malformed"]
     ELSE LET t == verifierText(strategy, u.body.data)
          IN IF t.threw \/ ~t.v.found THEN [none EXCEPT !.ver = "notext"]
             ELSE LET parsed == JSONparse(extractJsonText(trim(t.v.s)))
                  IN IF parsed.threw THEN [none EXCEPT !.ver = "unparsable"]
                     ELSE [none EXCEPT !.ver = "parsed", !.answer = parsed.v]

\* The handler finished with this response.
respond(status, body) ==
  /\ res' = Reply(status, body)
  /\ h' = [h EXCEPT !.pc = "done"]

\* handler, up to the first await: method, body and credential checks, then
\* attempt 1 calls generateFact, which issues its fetch.
handler_funFact_start ==
  /\ req.endpoint = "/api/fun-fact"
  /\ h.pc = "idle"
  /\ UNCHANGED <<trip, narration, env, client, req, attempts, upstream>>
  /\ IF req.method # "POST"
       THEN respond(405, Error("Method not allowed")) /\ UNCHANGED calls
     ELSE IF ~Truthy(Get(req.body, "placeName"))
       THEN respond(400, Error("placeName is required")) /\ UNCHANGED calls
     ELSE IF missingKey_funFact
       THEN respond(500, Error("Server configuration error")) /\ UNCHANGED calls
     ELSE IF loopContinues(1)
       THEN /\ h' = [h EXCEPT !.pc = "generating", !.attempt = 1]
            /\ calls' = [calls EXCEPT !.generate = @ + 1]
            /\ res' = res
     ELSE respond(200, Field(Field(EmptyObj, "funFact", Null), "verified", Bool(FALSE)))
          /\ UNCHANGED calls

\* catch (error) of the handler: 500 with funFact null and verified false.
handlerCatch ==
  respond(500, Field(Field(Error("Failed to get verified fun fact"),
                           "funFact", Null), "verified", Bool(FALSE)))

\* The generation fetch settles with outcome u.  generateFact throws into the
\* handler's catch, or returns the candidate and verifyFact issues its fetch.
\* The verification of the previous iteration is out of scope from here on.
handler_funFact_onGenerate(u) ==
  /\ h.pc = "generating"
  /\ UNCHANGED <<trip, narration, env, client, req>>
  /\ upstream' = [gen |-> genClass(u), ver |-> "none", answer |-> Undef]
  /\ LET fact == generateFact(u)
     IN IF fact.threw
          THEN /\ handlerCatch
               /\ attempts' = Append(attempts, [fact |-> Undef, generated |-> FALSE,
                                                failure |-> genClass(u),
                                                verified |-> "no"])
               /\ UNCHANGED calls
          ELSE /\ h' = [h EXCEPT !.pc = "verifying", !.fact = fact.v,
                                 !.verification = Undef]
               /\ calls' = [calls EXCEPT !.verify = @ + 1]
               /\ attempts' = Append(attempts, [fact |-> fact.v, generated |-> TRUE,
                                                failure |-> genClass(u),
                                                verified |-> "pending"])
               /\ res' = res

\* The verification fetch settles with outcome u.  A verified candidate is
\* returned at once; otherwise attempt++ and either the next generateFact
\* issues its fetch or the loop is exhausted.
handler_funFact_onVerify(u) ==
  /\ h.pc = "verifying"
  /\ UNCHANGED <<trip, narration, env, client, req>>
  /\ upstream' = [sawVerification(env.strategy, u) EXCEPT !.gen = upstream.gen]
  /\ LET outcome == verifyFact_funFact(env.strategy, u)
         verification == outcome.v
         next == h.attempt + 1
     IN /\ attempts' = [attempts EXCEPT ![Len(attempts)].verified =
                          IF outcome.threw THEN "threw"
                          ELSE IF Truthy(Get(verification, "verified")) THEN "yes"
                          ELSE "no"]
        /\ IF outcome.threw
             THEN handlerCatch /\ UNCHANGED calls
           ELSE IF returnsCandidate(verification)
             THEN /\ res' = Reply(200, Field(Field(EmptyObj, "funFact", h.fact),
                                             "verified", Bool(TRUE)))
                  /\ h' = [h EXCEPT !.pc = "done", !.verification = verification]
                  /\ UNCHANGED calls
           ELSE IF loopContinues(next)
             THEN /\ h' = [h EXCEPT !.pc = "generating", !.attempt = next,
                                    !.verification = verification]
                  /\ calls' = [calls EXCEPT !.generate = @ + 1]
                  /\ res' = res
           ELSE /\ res' = Reply(200, Field(Field(EmptyObj, "funFact", Null),
                                           "verified", Bool(FALSE)))
                /\ h' = [h EXCEPT !.pc = "done", !.attempt = next,
                                  !.verification = verification]
                /\ UNCHANGED calls

\* ------------------------------------------------------------------------
\* getFunFact (browser)
\* ------------------------------------------------------------------------

\* The sentence returned by the catch block of getFunFact.
fallbackSentence(placeName, isDestination) ==
  LET cityName == trim(splitFirst(placeName))
  IN IF isDestination
       THEN Str(<<W("You're heading to"), WS>> \o cityName
                 \o <<W("! Keep your eyes open ... What do you think you'll see there?")>>)
       ELSE Str(<<W("You're in"), WS>> \o cityName
                 \o <<W("! Keep your eyes open ... What do you see outside?")>>)

\* The catch block rethrows instead of returning the fallback.
getFunFactCatch_rethrows(placeName, isDestination) == Rejected

\* catch (error) of getFunFact.
getFunFactCatch(placeName, isDestination) ==
  Returned(fallbackSentence(placeName, isDestination))

\* getFunFact(placeName, isDestination) up to its first await: the request
\* to /api/fun-fact in production, the request to the provider otherwise.
Call_getFunFact(placeName, isDestination) ==
  /\ client.fn = "none"
  /\ req = NoReq
  /\ client' = [client EXCEPT !.fn = "getFunFact",
                              !.pc = IF env.isProduction THEN "await_api" ELSE "await_provider",
                              !.placeName = placeName,
                              !.isDestination = isDestination]
  /\ IF env.isProduction
       THEN /\ req' = [endpoint |-> "/api/fun-fact", method |-> "POST",
                       body |-> Field(Field(EmptyObj, "placeName", Str(placeName)),
                                      "isDestination", Bool(isDestination))]
            /\ UNCHANGED calls
       ELSE /\ calls' = [calls EXCEPT !.generate = @ + 1]
            /\ UNCHANGED req
  /\ UNCHANGED <<trip, narration, env, h, res, attempts, upstream>>

\* Production path after the fetch of /api/fun-fact settled with r.
getFunFactProduction(r, placeName, isDestination) ==
  IF r.net = "error" THEN getFunFactCatch(placeName, isDestination)
  ELSE IF ~responseOk(r) THEN getFunFactCatch(placeName, isDestination)
  ELSE LET data == responseJson(r)
       IN IF data.threw \/ ~CanRead(data.v)
            THEN getFunFactCatch(placeName, isDestination)
            ELSE Returned(Or(Get(data.v, "funFact"), Get(data.v, "fallback")))

\* Development path after the fetch of the provider settled with u.
getFunFactDirect(u, placeName, isDestination) ==
  IF u.net = "error" THEN getFunFactCatch(placeName, isDestination)
  ELSE IF ~responseOk(u) THEN getFunFactCatch(placeName, isDestination)
  ELSE LET data == responseJson(u)
       IN IF data.threw THEN getFunFactCatch(placeName, isDestination)
          ELSE LET funFact == contentFirstText(data.v)
               IN IF funFact.threw THEN getFunFactCatch(placeName, isDestination)
                  ELSE Returned(funFact.v)

\* The response of the serverless function as fetch() delivers it.
delivered == Response(res.status, JsonBody(stringify(res.body)))

\* The fetch of /api/fun-fact settles: with the handler's response, or with a
\* network error (before the request arrived or instead of the response).
getFunFact_onApi(lost) ==
  /\ client.fn = "getFunFact"
  /\ client.pc = "await_api"
  /\ IF lost THEN h.pc \in {"idle", "done"} ELSE res.status # 0
  /\ client' = [client EXCEPT !.pc = "done",
                  !.net = IF lost THEN "error" ELSE "ok",
                  !.out = getFunFactProduction(IF lost THEN NetworkError ELSE delivered,
                                               client.placeName, client.isDestination)]
  /\ req' = IF h.pc = "idle" THEN NoReq ELSE req
  /\ UNCHANGED <<trip, narration, env, h, res, calls, attempts, upstream>>

\* The fetch of the provider settles with outcome u.
getFunFact_onProvider(u) ==
  /\ client.fn = "getFunFact"
  /\ client.pc = "await_provider"
  /\ client' = [client EXCEPT !.pc = "done",
                  !.out = getFunFactDirect(u, client.placeName, client.isDestination)]
  /\ upstream' = [upstream EXCEPT !.gen = genClass(u)]
  /\ UNCHANGED <<trip, narration, env, req, h, res, calls, attempts>>

\* ------------------------------------------------------------------------
\* /api/verify-fact
\* ------------------------------------------------------------------------

\* const apiKey = process.env.ANTHROPIC_API_KEY; if (!apiKey)
missingKey_verifyFact == ~env.ANTHROPIC_API_KEY

\* handler, up to its await: method, body and credential checks, then the
\* fetch of the verifying capability.
handler_verifyFact_start ==
  /\ req.endpoint = "/api/verify-fact"
  /\ h.pc = "idle"
  /\ UNCHANGED <<trip, narration, env, client, req, attempts, upstream>>
  /\ IF req.method # "POST"
       THEN respond(405, Error("Method not allowed")) /\ UNCHANGED calls
     ELSE IF ~Truthy(Get(req.body, "funFact")) \/ ~Truthy(Get(req.body, "placeName"))
       THEN respond(400, Error("funFact and placeName are required")) /\ UNCHANGED calls
     ELSE IF missingKey_verifyFact
       THEN respond(500, Error("Server configuration error")) /\ UNCHANGED calls
     ELSE /\ h' = [h EXCEPT !.pc = "verify_calling"]
          /\ calls' = [calls EXCEPT !.verify = @ + 1]
          /\ res' = res

\* The fetch settles with outcome u: every branch answers 200.  An exception
\* that escaped the handler would leave the request without an answer of the
\* handler (status 500 of the platform).
handler_verifyFact_onResponse(u) ==
  /\ h.pc = "verify_calling"
  /\ UNCHANGED <<trip, narration, env, client, req, calls, attempts>>
  /\ upstream' = sawVerification(env.strategy, u)
  /\ LET outcome == verifyFact_handler(env.strategy, u)
     IN IF outcome.threw
          THEN /\ res' = Reply(500, Undef)
               /\ h' = [h EXCEPT !.pc = "threw"]
          ELSE /\ res' = Reply(200, outcome.v)
               /\ h' = [h EXCEPT !.pc = "done", !.verification = outcome.v]

\* ------------------------------------------------------------------------
\* /api/speak
\* ------------------------------------------------------------------------

validVoices == {"alloy", "echo", "fable", "onyx", "nova", "shimmer"}

\* const { text, voice = 'nova' } = req.body;
\* validVoices.includes(voice) ? voice : 'nova'
selectVoice(body) ==
  LET voice == Get(body, "voice")
  IN IF voice.t = "string" /\ Len(voice.s) = 1 /\ voice.s[1].c = "word"
          /\ voice.s[1].w \in validVoices
       THEN voice.s[1].w
       ELSE "nova"

\* const apiKey = process.env.OPENAI_API_KEY; if (!apiKey)
missingKey_speak == ~env.OPENAI_API_KEY

\* handler, up to its await: method and body checks, voice, credential
\* check, then the fetch of the synthesis capability.
handler_speak_start ==
  /\ req.endpoint = "/api/speak"
  /\ h.pc = "idle"
  /\ UNCHANGED <<trip, narration, env, client, req, attempts, upstream>>
  /\ IF req.method # "POST"
       THEN respond(405, Error("Method not allowed")) /\ UNCHANGED calls
     ELSE IF ~Truthy(Get(req.body, "text"))
       THEN respond(400, Error("text is required")) /\ UNCHANGED calls
     ELSE IF missingKey_speak
       THEN respond(500, Error("Server configuration error")) /\ UNCHANGED calls
     ELSE /\ h' = [h EXCEPT !.pc = "speak_calling",
                            !.selectedVoice = selectVoice(req.body)]
          /\ calls' = [calls EXCEPT !.speech = @ + 1]
          /\ res' = res

\* errorData.error?.message || 'Failed to generate speech', where errorData
\* is the body of the provider's error or {} when it is not JSON.
speechError(u) ==
  LET errorData == IF responseJson(u).threw THEN EmptyObj ELSE responseJson(u).v
      error == Get(errorData, "error")
      message == IF CanRead(error) THEN Get(error, "message") ELSE Undef
  IN Field(EmptyObj, "error", Or(message, Str(<<W("Failed to generate speech")>>)))

\* The synthesis fetch settles with outcome u.
handler_speak_onResponse(u) ==
  /\ h.pc = "speak_calling"
  /\ UNCHANGED <<trip, narration, env, client, req, calls, attempts, upstream>>
  /\ IF u.net = "error"
       THEN respond(500, Error("Failed to generate speech"))
     ELSE IF ~responseOk(u)
       THEN respond(u.status, speechError(u))
     ELSE respond(200, Audio)

\* ------------------------------------------------------------------------
\* verifyFact (browser)
\* ------------------------------------------------------------------------

\* verifyFact(funFact, placeName) up to its first await.
Call_verifyFact(funFact, placeName) ==
  /\ client.fn = "none"
  /\ req = NoReq
  /\ client' = [client EXCEPT !.fn = "verifyFact",
                              !.pc = IF env.isProduction THEN "await_api" ELSE "await_provider",
                              !.placeName = placeName,
                              !.funFact = Str(funFact)]
  /\ IF env.isProduction
       THEN /\ req' = [endpoint |-> "/api/verify-fact", method |-> "POST",
                       body |-> Field(Field(EmptyObj, "funFact", Str(funFact)),
                                      "placeName", Str(placeName))]
            /\ UNCHANGED calls
       ELSE /\ calls' = [calls EXCEPT !.verify = @ + 1]
            /\ UNCHANGED req
  /\ UNCHANGED <<trip, narration, env, h, res, attempts, upstream>>

\* The outcome of an async function: its value, or a rejection.
settle(r) == IF r.threw THEN Rejected ELSE Returned(r.v)

\* The fetch of /api/verify-fact settles.
verifyFact_onApi(lost) ==
  /\ client.fn = "verifyFact"
  /\ client.pc = "await_api"
  /\ IF lost THEN h.pc \in {"idle", "done"} ELSE res.status # 0
  /\ client' = [client EXCEPT !.pc = "done",
                  !.net = IF lost THEN "error" ELSE "ok",
                  !.out = settle(verifyFact_production(
                                   IF lost THEN NetworkError ELSE delivered))]
  /\ req' = IF h.pc = "idle" THEN NoReq ELSE req
  /\ UNCHANGED <<trip, narration, env, h, res, calls, attempts, upstream>>

\* The fetch of the provider settles with outcome u.
verifyFact_onProvider(u) ==
  /\ client.fn = "verifyFact"
  /\ client.pc = "await_provider"
  /\ client' = [client EXCEPT !.pc = "done",
                  !.out = settle(verifyFact_direct(env.strategy, u))]
  /\ upstream' = sawVerification(env.strategy, u)
  /\ UNCHANGED <<trip, narration, env, req, h, res, calls, attempts>>

\* ------------------------------------------------------------------------
\* Any HTTP client of the serverless functions
\* ------------------------------------------------------------------------

HttpMethods == {"POST", "GET"}

HttpBodies(endpoint) ==
  CASE endpoint = "/api/fun-fact" ->
         { EmptyObj, Field(EmptyObj, "placeName", Str(<<W("Shelbyville")>>)) }
    [] endpoint = "/api/verify-fact" ->
         { EmptyObj, Field(EmptyObj, "funFact", Str(<<W("factB")>>)),
           Field(Field(EmptyObj, "funFact", Str(<<W("factB")>>)),
                 "placeName", Str(<<W("Shelbyville")>>)) }
    [] endpoint = "/api/speak" ->
         { EmptyObj, Field(EmptyObj, "text", Str(<<W("hello")>>)),
           Field(Field(EmptyObj, "text", Str(<<W("hello")>>)), "voice", Str(<<W("echo")>>)),
           Field(Field(EmptyObj, "text", Str(<<W("hello")>>)), "voice", Str(<<W("robot")>>)) }

Endpoints == {"/api/fun-fact", "/api/verify-fact", "/api/speak"}

\* A request arrives at a serverless function.
HttpRequest(endpoint, method, body) ==
  /\ client.fn = "none"
  /\ req = NoReq
  /\ client' = [client EXCEPT !.fn = "http", !.pc = "await_api"]
  /\ req' = [endpoint |-> endpoint, method |-> method, body |-> body]
  /\ UNCHANGED <<trip, narration, env, h, res, calls, attempts, upstream>>

\* The response reaches the HTTP client.
HttpResponse ==
  /\ client.fn = "http"
  /\ client.pc = "await_api"
  /\ res.status # 0
  /\ client' = [client EXCEPT !.pc = "done", !.out = Returned(stringify(res.body))]
  /\ UNCHANGED <<trip, narration, env, req, h, res, calls, attempts, upstream>>

Next ==
  \/ handler_funFact_start
  \/ \E u \in GenResponses : handler_funFact_onGenerate(u)
  \/ \E u \in VerResponses : handler_funFact_onVerify(u)
  \/ handler_verifyFact_start
  \/ \E u \in VerResponses : handler_verifyFact_onResponse(u)
  \/ handler_speak_start
  \/ \E u \in TtsResponses : handler_speak_onResponse(u)
  \/ \E p \in PlaceNames, d \in BOOLEAN : Call_getFunFact(p, d)
  \/ \E lost \in BOOLEAN : getFunFact_onApi(lost)
  \/ \E u \in GenResponses : getFunFact_onProvider(u)
  \/ \E f \in {trim(x) : x \in RawFacts}, p \in PlaceNames : Call_verifyFact(f, p)
  \/ \E lost \in BOOLEAN : verifyFact_onApi(lost)
  \/ \E u \in VerResponses : verifyFact_onProvider(u)
  \/ \E e \in Endpoints, m \in HttpMethods : \E b \in HttpBodies(e) : HttpRequest(e, m, b)
  \/ HttpResponse

Spec == Init /\ [][Next]_vars

\* Upstream fetches settle (with a response or a network error) and the event
\* loop runs every continuation that is ready.
FairSpec == Spec /\ WF_vars(Next)

\* ------------------------------------------------------------------------
\* Properties of fact acquisition
\* ------------------------------------------------------------------------

\* A POST of /api/fun-fact with a place name.
ValidFactRequest ==
  /\ req.endpoint = "/api/fun-fact"
  /\ req.method = "POST"
  /\ Truthy(Get(req.body, "placeName"))

NoCalls == [generate |-> 0, verify |-> 0, speech |-> 0]
ConfigurationError == Reply(500, Error("Server configuration error"))
VerifiedReply(fact) ==
  Reply(200, Field(Field(EmptyObj, "funFact", fact), "verified", Bool(TRUE)))

\* C1: a valid POST /fact with a configured credential makes at most
\* MAX_VERIFICATION_ATTEMPTS (3) generation calls and at most 3 verification
\* calls, whatever the upstream outcomes are.
C1_BoundedCalls ==
  (ValidFactRequest /\ env.ANTHROPIC_API_KEY) =>
    /\ calls.generate <= 3
    /\ calls.verify <= 3
    /\ Len(attempts) <= 3

\* All three attempts were made and the handler answered.
C1_Witness ==
  /\ ValidFactRequest /\ env.ANTHROPIC_API_KEY
  /\ h.pc = "done" /\ calls.generate = 3 /\ calls.verify = 3

\* C2: when the verification of attempt k is verified, the loop stops at
\* once and answers 200 with the candidate of attempt k and verified true;
\* no generate or verify call of a later attempt is made (k generate and k
\* verify calls in all).
C2_ShortCircuit ==
  \A k \in DOMAIN attempts :
    attempts[k].verified = "yes" =>
      /\ k = Len(attempts)
      /\ h.pc = "done"
      /\ res = VerifiedReply(attempts[k].fact)
      /\ calls.generate = k
      /\ calls.verify = k

\* Attempt 1 verified: the generator was called exactly once.
C2_Witness ==
  /\ Len(attempts) = 1 /\ attempts[1].verified = "yes"
  /\ calls.generate = 1 /\ res.status = 200

\* C3 (as claimed): the text getFunFact returns is the candidate of an
\* attempt whose verification was verified, or the fallback sentence, in the
\* serverless and in the direct configuration.
C3_OnlyVerifiedOrFallback ==
  (client.fn = "getFunFact" /\ client.pc = "done") =>
    /\ client.out.kind = "returned"
    /\ \/ client.out.value = fallbackSentence(client.placeName, client.isDestination)
       \/ \E k \in DOMAIN attempts :
            attempts[k].verified = "yes" /\ attempts[k].fact = client.out.value

\* C4 (as claimed): when each of the 3 attempts is unverified, getFunFact
\* returns the fallback sentence for the place, a non-empty string.
C4_ExhaustedYieldsFallback ==
  ( /\ client.fn = "getFunFact" /\ client.pc = "done"
    /\ Len(attempts) = 3
    /\ \A k \in DOMAIN attempts : attempts[k].generated /\ attempts[k].verified = "no" ) =>
    /\ client.out = Returned(fallbackSentence(client.placeName, client.isDestination))
    /\ Truthy(client.out.value)

\* C5: getFunFact (and the /api/fun-fact handler behind it) never throws or
\* rejects, makes at most 3 generate and 3 verify round trips, and terminates
\* with a returned value, for every upstream outcome (success, non-2xx,
\* malformed body, network error).
C5_NeverThrowsAndTerminates ==
  /\ [](client.fn = "getFunFact" =>
          /\ client.out.kind # "threw"
          /\ h.pc # "threw"
          /\ calls.generate <= 3 /\ calls.verify <= 3)
  /\ (client.fn = "getFunFact") ~> (client.pc = "done" /\ client.out.kind = "returned")

\* The handler answered 500 after an upstream failure and getFunFact
\* returned the fallback sentence.
C5_Witness ==
  /\ client.fn = "getFunFact" /\ client.pc = "done"
  /\ res.status = 500 /\ upstream.gen \in {"network", "status", "malformed"}
  /\ client.out = Returned(fallbackSentence(client.placeName, client.isDestination))

\* C6 (as claimed): a generator failure (non-2xx or malformed response) on
\* attempt k < 3 does not abort the loop: when the handler has answered,
\* attempt k+1 was executed.
C6_GeneratorFailureContinues ==
  \A k \in DOMAIN attempts :
    ( /\ attempts[k].failure \in {"status", "malformed"}
      /\ k < MAX_VERIFICATION_ATTEMPTS
      /\ h.pc = "done" ) => Len(attempts) > k

\* C7 (as claimed): with a valid body and a configured credential, non-2xx
\* and malformed upstream responses still yield 200 with verified false;
\* 500 is answered only when the credential is missing.
C7_UpstreamFailureYields200 ==
  ( /\ ValidFactRequest /\ h.pc = "done"
    /\ \A k \in DOMAIN attempts : attempts[k].failure \in {"ok", "status", "malformed"} ) =>
    /\ env.ANTHROPIC_API_KEY =>
         (res.status = 200 /\
          ((\E k \in DOMAIN attempts : attempts[k].failure # "ok") =>
             Get(res.body, "verified") = Bool(FALSE)))
    /\ res.status = 500 => ~env.ANTHROPIC_API_KEY

\* An otherwise valid POST of the endpoint.
ValidPost(endpoint) ==
  /\ req.endpoint = endpoint
  /\ req.method = "POST"
  /\ CASE endpoint = "/api/fun-fact" -> Truthy(Get(req.body, "placeName"))
       [] endpoint = "/api/verify-fact" ->
            Truthy(Get(req.body, "funFact")) /\ Truthy(Get(req.body, "placeName"))
       [] endpoint = "/api/speak" -> Truthy(Get(req.body, "text"))

\* The credential the endpoint needs is not set.
CredentialAbsent(endpoint) ==
  IF endpoint = "/api/speak" THEN ~env.OPENAI_API_KEY ELSE ~env.ANTHROPIC_API_KEY

\* C8: without the server credential, /fact, /verify and /narrate answer an
\* otherwise valid POST with 500 and exactly {error: 'Server configuration
\* error'} (nothing of the credential), and make no outbound call.
C8_MissingCredential ==
  \A e \in Endpoints :
    (ValidPost(e) /\ CredentialAbsent(e)) =>
      /\ calls = NoCalls
      /\ attempts = << >>
      /\ h.pc # "idle" => (h.pc = "done" /\ res = ConfigurationError)

\* /api/fun-fact answered the configuration error.
C8_Witness ==
  /\ ValidPost("/api/fun-fact") /\ CredentialAbsent("/api/fun-fact")
  /\ res = ConfigurationError /\ calls = NoCalls

\* The verification fetch failed: network error, non-2xx, a body that is not
\* JSON, no text block, or a text that is not JSON.
VerificationFailed ==
  upstream.ver \in {"network", "status", "malformed", "notext", "unparsable"}

\* C9: no verifier throws or rejects (verifyFact inside /api/fun-fact, the
\* /api/verify-fact handler, verifyFact of the browser), and on a network
\* error, a non-2xx response, a response without text block or unparsable
\* JSON the result is {verified: false, confidence: 0}.
C9_VerifyFailsSoft ==
  /\ h.pc # "threw"
  /\ \A k \in DOMAIN attempts : attempts[k].verified # "threw"
  /\ client.fn = "verifyFact" => client.out.kind # "threw"
  /\ (req.endpoint = "/api/fun-fact" /\ VerificationFailed) =>
       (h.verification = SoftFail /\ attempts[Len(attempts)].verified = "no")
  /\ (req.endpoint = "/api/verify-fact" /\ VerificationFailed) =>
       (h.pc = "done" /\ res = Reply(200, SoftFail))
  /\ (client.fn = "verifyFact" /\ client.pc = "done" /\ VerificationFailed) =>
       client.out = Returned(SoftFail)
  /\ (client.fn = "verifyFact" /\ client.pc = "done" /\ env.isProduction
        /\ (client.net = "error" \/ ~responseOk(res))) =>
       client.out = Returned(SoftFail)

\* verifyFact of the browser got a text that is not JSON and returned the
\* soft failure.
C9_Witness ==
  /\ client.fn = "verifyFact" /\ client.pc = "done"
  /\ upstream.ver = "unparsable"
  /\ client.out = Returned(SoftFail)

\* The integer confidence of the parsed verifier answer, or -1.
answeredConfidence ==
  LET c == Get(upstream.answer, "confidence")
  IN IF upstream.ver = "parsed" /\ c.t = "number" THEN c.n ELSE -1

\* C10: self-assessment; for a parsed verifier answer with an integer
\* confidence c in 0..10 the result is verified iff c >= 7, and its
\* confidence is c (in /api/fun-fact, in /api/verify-fact and in verifyFact
\* of the browser).
C10_SelfAssessmentThreshold ==
  (env.strategy = "self" /\ answeredConfidence \in 0..10) =>
    LET c == answeredConfidence
        expected == Verification(c >= 7, Num(c))
    IN /\ req.endpoint \in {"/api/fun-fact", "/api/verify-fact"} =>
            h.verification = expected
       /\ req.endpoint = "/api/fun-fact" =>
            attempts[Len(attempts)].verified = (IF c >= 7 THEN "yes" ELSE "no")
       /\ req.endpoint = "/api/verify-fact" => res = Reply(200, expected)
       /\ (client.fn = "verifyFact" /\ client.pc = "done" /\ client.net # "error") =>
            client.out = Returned(expected)

\* Confidence exactly 7 was accepted by /api/fun-fact.
C10_Witness ==
  /\ env.strategy = "self" /\ answeredConfidence = 7
  /\ req.endpoint = "/api/fun-fact"
  /\ res.status = 200 /\ Get(res.body, "verified") = Bool(TRUE)

\* The parsed verifier answer carries the flag `true` itself (not "true", not
\* a missing flag) and a numeric confidence of at least the threshold.
answeredFlagAnd(threshold) ==
  /\ upstream.ver = "parsed"
  /\ CanRead(upstream.answer)
  /\ Get(upstream.answer, "verified") = Bool(TRUE)
  /\ Get(upstream.answer, "confidence").t = "number"
  /\ Get(upstream.answer, "confidence").n >= threshold

\* C11: evidence search; for every parsed verifier answer the result is
\* verified iff the answer's flag is exactly true and its confidence is at
\* least the threshold: 5 in /api/fun-fact and /api/verify-fact (and so in
\* the browser when it calls /api/verify-fact), 6 when the browser calls the
\* provider directly.  Flag false with a high confidence, and flag true with
\* a confidence below the threshold, are unverified.
C11_EvidenceSearchThreshold ==
  (env.strategy = "search" /\ upstream.ver = "parsed") =>
    /\ req.endpoint = "/api/fun-fact" =>
         /\ attempts[Len(attempts)].verified = (IF answeredFlagAnd(5) THEN "yes" ELSE "no")
         /\ Get(h.verification, "verified") = Bool(answeredFlagAnd(5))
    /\ req.endpoint = "/api/verify-fact" =>
         /\ res.status = 200
         /\ Get(res.body, "verified") = Bool(answeredFlagAnd(5))
    /\ (client.fn = "verifyFact" /\ client.pc = "done" /\ env.isProduction
          /\ client.net = "ok") =>
         /\ client.out.kind = "returned"
         /\ Get(client.out.value, "verified") = Bool(answeredFlagAnd(5))
    /\ (client.fn = "verifyFact" /\ client.pc = "done" /\ ~env.isProduction) =>
         /\ client.out.kind = "returned"
         /\ Get(client.out.value, "verified") = Bool(answeredFlagAnd(6))

\* The browser called the provider directly and the answer was
\* {"verified": true, "confidence": 5}: accepted by the serverless threshold,
\* unverified by the browser's.
C11_Witness ==
  /\ env.strategy = "search" /\ ~env.isProduction
  /\ client.fn = "verifyFact" /\ client.pc = "done"
  /\ upstream.ver = "parsed" /\ upstream.answer = SearchAnswer(TRUE, 5)
  /\ client.out = Returned(Verification(FALSE, Num(5)))

\* ------------------------------------------------------------------------
\* Narration: speech.js
\* ------------------------------------------------------------------------
\* The functions of speech.js are operators on the record n of the module's
\* state; an action applies the code that runs in one turn of the event loop
\* to the current state.

Now ==
  [persistentAudio |-> persistentAudio, currentBlobUrl |-> currentBlobUrl,
   speechQueue |-> speechQueue, isProcessingQueue |-> isProcessingQueue,
   requests |-> requests, utterances |-> utterances,
   objectUrls |-> objectUrls, heard |-> heard]

Becomes(n) ==
  /\ persistentAudio' = n.persistentAudio
  /\ currentBlobUrl' = n.currentBlobUrl
  /\ speechQueue' = n.speechQueue
  /\ isProcessingQueue' = n.isProcessingQueue
  /\ requests' = n.requests
  /\ utterances' = n.utterances
  /\ objectUrls' = n.objectUrls
  /\ heard' = n.heard

\* What the k-th speak(text, options) of the session is called with: every
\* call has a text of its own; every second call names a voice.
SpeakInputs(k) ==
  { [text |-> k,
     options |-> IF k % 2 = 0
                   THEN Field(EmptyObj, "voice", Str(<<W("echo")>>))
                   ELSE EmptyObj] }

\* What fetch('/api/speak') settles with: a network error, the audio, an
\* error of the function, an error page that is not JSON.
SpeakReplies ==
  { NetworkError, Response(200, [json |-> FALSE, audio |-> TRUE]),
    Response(500, JsonBody(Error("Server configuration error"))),
    Response(502, NotJson) }

\* item.resolve(): settles the promise of request k unless it is settled.
resolve(n, k) ==
  IF n.requests[k].promise = "pending"
    THEN [n EXCEPT !.requests[k].promise = "resolved"]
    ELSE n

\* item.reject(error)
reject(n, k, error) ==
  IF n.requests[k].promise = "pending"
    THEN [n EXCEPT !.requests[k].promise = "rejected", !.requests[k].error = error]
    ELSE n

\* item.resolve() for every request of the set ks, which leave the queue
\* without having been taken (position `why`).
resolveUntaken(n, ks, why) ==
  [n EXCEPT !.requests =
     [k \in DOMAIN n.requests |->
        IF k \in ks
          THEN [n.requests[k] EXCEPT
                  !.promise = IF @ = "pending" THEN "resolved" ELSE @,
                  !.pc = why]
          ELSE n.requests[k]]]

\* function getPersistentAudio()
getPersistentAudio(n) ==
  IF ~n.persistentAudio.created
    THEN [n EXCEPT !.persistentAudio = [NoAudio EXCEPT !.created = TRUE]]
    ELSE n

\* The pending promise of audio.play() is rejected with an AbortError: the
\* continuation of the invocation awaiting it is queued as a microtask.
abortPlay(n) ==
  [n EXCEPT !.requests =
     [k \in DOMAIN n.requests |->
        IF n.requests[k].pc = "play"
          THEN [n.requests[k] EXCEPT !.pc = "aborted"]
          ELSE n.requests[k]],
            !.persistentAudio.media = IF @ = "starting" THEN "idle" ELSE @]

\* audio.pause(): nothing when paused; otherwise paused becomes true and a
\* pending play() promise is rejected.
pause(n) ==
  IF n.persistentAudio.paused
    THEN n
    ELSE abortPlay([n EXCEPT !.persistentAudio.paused = TRUE])

\* audio.src = audioUrl; audio.play(): the load of the new source pauses the
\* element and rejects a pending play() promise, rewinds, and play() starts
\* the new source (its promise is pending).
srcAndPlay(n, url) ==
  [pause(n) EXCEPT !.persistentAudio.src = url,
                   !.persistentAudio.currentTime = 0,
                   !.persistentAudio.paused = FALSE,
                   !.persistentAudio.media = "starting"]

\* window.speechSynthesis.cancel(): the utterance being spoken stops and the
\* browser sends it its last event: an error event with the error
\* "interrupted" (Web Speech API), or an end event (browsers that end a
\* cancelled utterance).  The handlers of the utterance only settle the
\* promise of its request, which nothing in speech.js reads: the promise is
\* settled here, with the cancel.
cancel(n) ==
  LET speaking == {u \in n.utterances : u.state = "speaking"}
      n1 == [n EXCEPT !.utterances = {[u EXCEPT !.state = "done"] : u \in @}]
  IN IF speaking = {} THEN n
     ELSE LET u == CHOOSE x \in speaking : TRUE
          IN IF window.onCancel = "error"
               THEN reject(n1, u.request, "interrupted")
               ELSE resolve(n1, u.request)

\* A sound of request k starts on the path (audio element or speech).
hears(n, k, path) ==
  [n EXCEPT !.heard = @ \cup {[request |-> k, path |-> path]}]

\* fallbackToWebSpeech(text, options) with the text and the promise of
\* request k, called after the primary path of request `cause` failed.
\* The utterance's voice, rate, pitch and volume do not decide any branch.
fallbackToWebSpeech(n, k, cause) ==
  IF ~window.speechSynthesis
    THEN reject(n, k, "not supported")
    ELSE LET n1 == cancel(n)
             n2 == [n1 EXCEPT !.utterances =
                      @ \cup {[request |-> k, text |-> n1.requests[k].text,
                                cause |-> cause, state |-> "speaking"]}]
         IN hears(n2, k, "speech")

\* The catch block of processQueue for the invocation that took request k.
primaryFailed(n, k) ==
  LET n1 == [n EXCEPT !.isProcessingQueue = FALSE, !.requests[k].pc = "fallback"]
  IN fallbackToWebSpeech(n1, k, k)

\* audio.onerror as installed for request k, run because the media of
\* request `cause` failed.
onerror(n, k, cause) ==
  LET n1 == [n EXCEPT !.isProcessingQueue = FALSE,
                      !.requests[k].pc = IF k = cause THEN "fallback" ELSE @]
  IN fallbackToWebSpeech(n1, k, cause)

\* The oldest item is taken instead of the newest.
selectItem_oldest(queue) == queue[1]

\* const item = speechQueue[speechQueue.length - 1]
selectItem(queue) == queue[Len(queue)]

\* fetchAndPlayAudio(text, options) up to its fetch: the body of the request.
speakBody(text, options) ==
  Field(Field(EmptyObj, "text", Str(<<W(text)>>)),
        "voice", Or(Get(options, "voice"), Str(<<W("nova")>>)))

\* async function processQueue(), up to its first await: the flag, the pause
\* of the element, the newest item, resolve() of the others, the fetch.
processQueue(n) ==
  IF n.isProcessingQueue \/ n.speechQueue = << >>
    THEN n
    ELSE LET n1 == [n EXCEPT !.isProcessingQueue = TRUE]
             n2 == getPersistentAudio(n1)
             n3 == IF ~n2.persistentAudio.paused THEN pause(n2) ELSE n2
             queue == n3.speechQueue
             item == selectItem(queue)
             others == {queue[i] : i \in 1..(Len(queue) - 1)}
             n4 == resolveUntaken(n3, others, "skipped")
         IN [n4 EXCEPT !.speechQueue = << >>,
                       !.requests[item].pc = "fetch",
                       !.requests[item].body =
                          speakBody(n4.requests[item].text, n4.requests[item].options)]

\* export function speak(text, options = {})
speak(n, text, options) ==
  LET k == Len(n.requests) + 1
      item == [text |-> text, options |-> options, promise |-> "pending",
               error |-> "none", pc |-> "queued", body |-> Undef]
  IN processQueue([n EXCEPT !.requests = Append(@, item),
                            !.speechQueue = Append(@, k)])

\* The element is created by stopSpeaking when there is none.
stopAudio_creates(n) ==
  [pause(getPersistentAudio(n)) EXCEPT !.persistentAudio.currentTime = 0]

\* if (persistentAudio) { persistentAudio.pause(); persistentAudio.currentTime = 0 }
stopAudio(n) ==
  IF n.persistentAudio.created
    THEN [pause(n) EXCEPT !.persistentAudio.currentTime = 0]
    ELSE n

\* if (currentBlobUrl) { URL.revokeObjectURL(currentBlobUrl); currentBlobUrl = null }
revokeCurrent(n) ==
  IF n.currentBlobUrl # 0
    THEN [n EXCEPT !.objectUrls = @ \ {n.currentBlobUrl}, !.currentBlobUrl = 0]
    ELSE n

\* stopSpeaking() also drops the element, so that the next playback creates
\* another one.
stopSpeaking_discards(n) ==
  LET queued == {n.speechQueue[i] : i \in DOMAIN n.speechQueue}
      n1 == resolveUntaken(n, queued, "cleared")
      n2 == [n1 EXCEPT !.speechQueue = << >>, !.isProcessingQueue = FALSE]
      n3 == [revokeCurrent(stopAudio(n2)) EXCEPT !.persistentAudio = NoAudio]
  IN IF window.speechSynthesis THEN cancel(n3) ELSE n3

\* export function stopSpeaking()
stopSpeaking(n) ==
  LET queued == {n.speechQueue[i] : i \in DOMAIN n.speechQueue}
      n1 == resolveUntaken(n, queued, "cleared")
      n2 == [n1 EXCEPT !.speechQueue = << >>, !.isProcessingQueue = FALSE]
      n3 == revokeCurrent(stopAudio(n2))
  IN IF window.speechSynthesis THEN cancel(n3) ELSE n3

\* The application called a function of speech.js, or the event loop ran a
\* callback.
traced(op) ==
  lastCall' = CASE op = "stopSpeaking" -> "stopSpeaking"
                [] op = "speak" -> "other"
                [] OTHER -> IF lastCall = "other" THEN "other" ELSE "stopped"

\* No continuation is waiting in the microtask queue: the event loop may run
\* the next task.
NoMicrotask == \A k \in DOMAIN requests : requests[k].pc # "aborted"

\* The application calls speak(text, options).
Call_speak(input) ==
  /\ Len(requests) < MaxRequests
  /\ Becomes(speak(Now, input.text, input.options))
  /\ traced("speak")
  /\ UNCHANGED <<acquisition, window, trip>>

\* The application calls stopSpeaking().
Call_stopSpeaking ==
  /\ Becomes(stopSpeaking(Now))
  /\ traced("stopSpeaking")
  /\ UNCHANGED <<acquisition, window, trip>>

\* The play() promise of the invocation for request k was rejected by a
\* pause() or by a new src: fetchAndPlayAudio throws into the catch block.
processQueue_onPlayAborted(k) ==
  /\ k \in DOMAIN requests
  /\ requests[k].pc = "aborted"
  /\ Becomes(primaryFailed(Now, k))
  /\ traced("event")
  /\ UNCHANGED <<acquisition, window, trip>>

\* The fetch of /api/speak for request k settles with r: a network error
\* throws; a status that is not ok reads the error body; otherwise the
\* previous blob URL is revoked and the blob is read.
fetchAndPlayAudio_onFetch(k, r) ==
  /\ NoMicrotask
  /\ k \in DOMAIN requests
  /\ requests[k].pc = "fetch"
  /\ IF r.net = "error"
       THEN Becomes(primaryFailed(Now, k))
     ELSE IF ~responseOk(r)
       THEN Becomes([Now EXCEPT !.requests[k].pc = "errorBody"])
     ELSE Becomes([revokeCurrent(Now) EXCEPT !.requests[k].pc = "blob"])
  /\ traced("event")
  /\ UNCHANGED <<acquisition, window, trip>>

\* response.json().catch(() => ({})) settled: throw new Error(...).
fetchAndPlayAudio_onErrorBody(k) ==
  /\ NoMicrotask
  /\ k \in DOMAIN requests
  /\ requests[k].pc = "errorBody"
  /\ Becomes(primaryFailed(Now, k))
  /\ traced("event")
  /\ UNCHANGED <<acquisition, window, trip>>

\* response.blob() of request k settles.  With the blob: createObjectURL,
\* currentBlobUrl, the element, audio.src and audio.play(), whose promise is
\* awaited.  The blob URL of request k is numbered k.
fetchAndPlayAudio_onBlob(k, ok) ==
  /\ NoMicrotask
  /\ k \in DOMAIN requests
  /\ requests[k].pc = "blob"
  /\ IF ok
       THEN LET n1 == [Now EXCEPT !.objectUrls = @ \cup {k}, !.currentBlobUrl = k]
                n2 == srcAndPlay(getPersistentAudio(n1), k)
            IN Becomes([n2 EXCEPT !.requests[k].pc = "play"])
       ELSE Becomes(primaryFailed(Now, k))
  /\ traced("event")
  /\ UNCHANGED <<acquisition, window, trip>>

\* How the pending audio.play() of the element settles by itself: playback
\* starts; the source cannot be loaded or decoded (an error event is fired
\* at the element, then the promise is rejected); the browser does not
\* allow playback (the promise is rejected, no event).
PlayOutcomes == {"started", "failed", "blocked"}

\* audio.play() of request k settles.  Started: fetchAndPlayAudio returns
\* and processQueue installs audio.onended and audio.onerror.  Otherwise the
\* catch block runs; the error event before it runs the onerror handler the
\* element has at that moment.
fetchAndPlayAudio_onPlay(k, outcome) ==
  /\ NoMicrotask
  /\ k \in DOMAIN requests
  /\ requests[k].pc = "play"
  /\ CASE outcome = "started" ->
            Becomes(hears([Now EXCEPT !.persistentAudio.media = "playing",
                                      !.persistentAudio.currentTime = 1,
                                      !.persistentAudio.onended = k,
                                      !.persistentAudio.onerror = k,
                                      !.requests[k].pc = "playing"],
                          k, "audio"))
       [] outcome = "failed" ->
            LET n1 == [Now EXCEPT !.persistentAudio.media = "failed"]
                handler == n1.persistentAudio.onerror
                n2 == IF handler # 0 THEN onerror(n1, handler, k) ELSE n1
            IN Becomes(primaryFailed(n2, k))
       [] outcome = "blocked" ->
            Becomes(primaryFailed([Now EXCEPT !.persistentAudio.media = "idle",
                                              !.persistentAudio.paused = TRUE], k))
  /\ traced("event")
  /\ UNCHANGED <<acquisition, window, trip>>

\* The element is producing sound.
audioPlaying ==
  /\ persistentAudio.created
  /\ persistentAudio.media = "playing"
  /\ ~persistentAudio.paused

\* The audio played to its end: the element is paused and audio.onended
\* runs: the flag, resolve(), processQueue().
audio_onended ==
  /\ NoMicrotask
  /\ audioPlaying
  /\ LET k == persistentAudio.onended
         n1 == [Now EXCEPT !.persistentAudio.media = "ended",
                           !.persistentAudio.paused = TRUE,
                           !.isProcessingQueue = FALSE,
                           !.requests[k].pc = "finished"]
     IN Becomes(processQueue(resolve(n1, k)))
  /\ traced("event")
  /\ UNCHANGED <<acquisition, window, trip>>

\* The audio fails while it plays: audio.onerror runs.
audio_onerror ==
  /\ NoMicrotask
  /\ audioPlaying
  /\ LET n1 == [Now EXCEPT !.persistentAudio.media = "failed"]
     IN Becomes(onerror(n1, persistentAudio.onerror, persistentAudio.src))
  /\ traced("event")
  /\ UNCHANGED <<acquisition, window, trip>>

\* The utterance was spoken to its end: utterance.onend = () => resolve()
utterance_onend(u) ==
  /\ NoMicrotask
  /\ u \in utterances
  /\ u.state = "speaking"
  /\ Becomes(resolve([Now EXCEPT !.utterances =
                         (@ \ {u}) \cup {[u EXCEPT !.state = "done"]}],
                     u.request))
  /\ traced("event")
  /\ UNCHANGED <<acquisition, window, trip>>

\* The synthesis of the utterance fails:
\* utterance.onerror = (event) => reject(event.error)
utterance_onerror(u) ==
  /\ NoMicrotask
  /\ u \in utterances
  /\ u.state = "speaking"
  /\ Becomes(reject([Now EXCEPT !.utterances =
                        (@ \ {u}) \cup {[u EXCEPT !.state = "done"]}],
                    u.request, "synthesis-failed"))
  /\ traced("event")
  /\ UNCHANGED <<acquisition, window, trip>>

\* The browsers of the model: without speechSynthesis, with a speechSynthesis
\* that sends error events to cancelled utterances, with one that sends end
\* events.
Browsers ==
  { [speechSynthesis |-> FALSE, onCancel |-> "none"],
    [speechSynthesis |-> TRUE, onCancel |-> "error"],
    [speechSynthesis |-> TRUE, onCancel |-> "end"] }

\* A page session of the speech service.  The speech service reads nothing
\* of the deployment.
SpeechInit ==
  /\ window \in Browsers
  /\ NarrationInit
  /\ TripInit
  /\ env = [isProduction |-> TRUE, ANTHROPIC_API_KEY |-> TRUE,
            OPENAI_API_KEY |-> TRUE, strategy |-> "search"]
  /\ client = IdleClient
  /\ req = NoReq
  /\ h = IdleHandler
  /\ res = NoRes
  /\ calls = [generate |-> 0, verify |-> 0, speech |-> 0]
  /\ attempts = << >>
  /\ upstream = [gen |-> "none", ver |-> "none", answer |-> Undef]

Requests == 1..MaxRequests

\* The callbacks that do not wait for the network: continuations of settled
\* promises, element events, utterance events.
LocalEvents ==
  \/ \E k \in Requests : processQueue_onPlayAborted(k)
  \/ \E k \in Requests : fetchAndPlayAudio_onErrorBody(k)
  \/ \E k \in Requests, ok \in BOOLEAN : fetchAndPlayAudio_onBlob(k, ok)
  \/ \E k \in Requests, o \in PlayOutcomes : fetchAndPlayAudio_onPlay(k, o)
  \/ audio_onended
  \/ audio_onerror
  \/ \E u \in utterances : utterance_onend(u)
  \/ \E u \in utterances : utterance_onerror(u)

\* The callbacks the event loop runs: the fetch of /api/speak settles, or a
\* local callback runs.
SpeechEvents ==
  \/ \E k \in Requests, r \in SpeakReplies : fetchAndPlayAudio_onFetch(k, r)
  \/ LocalEvents

SpeechNext ==
  \/ \E input \in SpeakInputs(Len(requests) + 1) : Call_speak(input)
  \/ Call_stopSpeaking
  \/ SpeechEvents

SpeechSpec == SpeechInit /\ [][SpeechNext]_vars

\* Every fetch, blob read and play() settles, playing audio and speaking
\* utterances come to an end or fail, and the event loop runs every callback
\* that is ready.  The application is not obliged to call speak() or
\* stopSpeaking().
FairSpeechSpec == SpeechSpec /\ WF_vars(SpeechEvents)

\* As FairSpeechSpec, but fetch('/api/speak') is called without a signal or
\* a timeout: nothing obliges the network to settle it.
HungFetchSpec == SpeechSpec /\ WF_vars(LocalEvents)

\* ------------------------------------------------------------------------
\* Properties of narration
\* ------------------------------------------------------------------------

\* The utterances the browser is speaking.
speaking == {u \in utterances : u.state = "speaking"}

\* C12 (as claimed): at most one playback attempt produces sound at any
\* time, under every interleaving of speak(), stopSpeaking(), fetch
\* completions and element events: the audio element does not play while an
\* utterance of the fallback is spoken, and no two utterances are spoken.
C12_OnePlaybackAtATime ==
  /\ Cardinality(speaking) <= 1
  /\ ~(audioPlaying /\ speaking # {})

\* speak() was called three times before the first request produced a sound
\* or was settled: request 1 was taken by the first call, requests 2 and 3
\* are queued behind it.
BurstOfThree ==
  /\ Len(requests) = 3
  /\ speechQueue = <<2, 3>>
  /\ requests[1].promise = "pending"
  /\ heard = {}

\* C13 (as claimed): three speak() calls in quick succession, before the
\* first resolves, give exactly one playback, that of the last request; the
\* other two requests produce no audio: no step out of such a state starts
\* a sound of request 1 or 2.
C13_BurstPlaysOnlyLast ==
  [][BurstOfThree => \A e \in heard' : e.request = 3]_vars

\* The requests waiting for processQueue in this step: the queued ones and
\* the one speak() pushes in this step.
pendingInStep ==
  {speechQueue[i] : i \in DOMAIN speechQueue}
    \cup (IF Len(requests') > Len(requests) THEN {Len(requests')} ELSE {})

\* processQueue takes request k in this step: its fetch is issued.
takenInStep(k) ==
  /\ k \in DOMAIN requests'
  /\ requests'[k].pc = "fetch"
  /\ (k \in DOMAIN requests => requests[k].pc = "queued")

\* C14: whenever processQueue takes a request, it is the most recently
\* enqueued of the waiting requests, the queue is emptied, and every other
\* waiting request is resolved in the same step; a request resolved this way
\* is never rejected and never produces a sound (no audio, no utterance).
C14_NewestTakenOthersResolved ==
  /\ [][\A k \in Requests :
          takenInStep(k) =>
            /\ k \in pendingInStep
            /\ \A j \in pendingInStep : j <= k
            /\ speechQueue' = << >>
            /\ \A j \in pendingInStep \ {k} :
                 requests'[j].pc = "skipped" /\ requests'[j].promise = "resolved"]_vars
  /\ [](\A k \in DOMAIN requests :
          requests[k].pc = "skipped" =>
            /\ requests[k].promise = "resolved"
            /\ \A e \in heard : e.request # k
            /\ \A u \in utterances : u.request # k)

\* Request 2 waited behind request 1 and was resolved without a sound when
\* request 3 was taken and played.
C14_Witness ==
  /\ Len(requests) = 3
  /\ requests[2].pc = "skipped" /\ requests[2].promise = "resolved"
  /\ [request |-> 3, path |-> "audio"] \in heard

\* C15 (as claimed): every promise returned by speak() is eventually
\* settled (resolved or rejected), whatever speak(), stopSpeaking() and
\* playback events follow.
C15_EveryPromiseSettles ==
  \A k \in Requests :
    (k \in DOMAIN requests) ~>
      (k \in DOMAIN requests /\ requests[k].promise # "pending")

\* stopSpeaking() was the last call of the application: every request of
\* the session was made before it.
afterStop == lastCall \in {"stopSpeaking", "stopped"}

\* C16 (as claimed): after stopSpeaking() has returned, no narration that was
\* requested before it produces any sound, also when its synthesis request
\* was in flight at the stop: as long as speak() is not called again, no
\* sound starts.
C16_StopSilencesEarlierRequests ==
  [][(afterStop /\ afterStop') => heard' \subseteq heard]_vars

\* The module-level state of speech.js, the promises and the browser
\* objects it drives.
speechState ==
  <<persistentAudio, currentBlobUrl, speechQueue, isProcessingQueue, requests,
    utterances, objectUrls>>

\* This step is a call of stopSpeaking().
stopStep == lastCall' = "stopSpeaking"

\* Nothing was ever played: no element, no blob URL, nothing queued.
freshSession ==
  /\ speechQueue = << >> /\ ~isProcessingQueue
  /\ ~persistentAudio.created /\ currentBlobUrl = 0

\* The queue is empty and nothing is played: not processing, the element
\* (if any) paused, no utterance spoken.
nothingPlaying ==
  /\ speechQueue = << >> /\ ~isProcessingQueue
  /\ persistentAudio.paused /\ speaking = {}

\* C17: stopSpeaking() with an empty queue and no playback changes nothing of
\* a fresh session (queue empty, not processing, no audio element created,
\* no blob URL) and, later in a session, settles no promise, creates no
\* element and leaves the queue empty, the flag false and no blob URL; a
\* second stopSpeaking() right after a first leaves the state of the first.
C17_StopIsIdempotentNoOp ==
  [][stopStep =>
       /\ freshSession => UNCHANGED speechState
       /\ nothingPlaying =>
            /\ speechQueue' = << >> /\ ~isProcessingQueue'
            /\ persistentAudio'.created = persistentAudio.created
            /\ currentBlobUrl' = 0 /\ objectUrls' = objectUrls \ {currentBlobUrl}
            /\ UNCHANGED <<requests, utterances>>
       /\ lastCall = "stopSpeaking" => UNCHANGED speechState]_vars

\* stopSpeaking() was called before anything was spoken: still no element.
C17_Witness ==
  /\ lastCall = "stopSpeaking"
  /\ requests = << >> /\ freshSession

\* C18 (as claimed): a request enqueued while another was active is
\* eventually taken by processQueue or resolved, without a further speak()
\* (or stopSpeaking()) call, whether the active narration finishes by
\* playback or by the fallback after a failure of the primary path.
C18_BacklogDrains ==
  \A k \in Requests :
    (k \in DOMAIN requests /\ requests[k].pc = "queued") ~>
      (k \in DOMAIN requests /\ requests[k].pc # "queued")

\* The utterances spoken because the primary path of request k failed.
fallbacksFor(k) == {u \in utterances : u.cause = k}

\* C19 (as claimed): the failure of the primary path of a request causes
\* exactly one fallback utterance, with the text of that request, and the
\* promise of the request is settled once the utterance is done; no
\* utterance is made with the text of another request, and none without a
\* failure of the primary path.
C19_OneFallbackSameText ==
  /\ \A u \in utterances :
       /\ u.request = u.cause
       /\ u.text = requests[u.cause].text
       /\ u.state = "done" => requests[u.request].promise # "pending"
  /\ \A k \in DOMAIN requests :
       Cardinality(fallbacksFor(k)) =
         (IF requests[k].pc = "fallback" /\ window.speechSynthesis THEN 1 ELSE 0)

\* C20 (as claimed): a speak() promise is rejected only when the primary
\* path of that request failed and the fallback could not speak it: the
\* browser has no speechSynthesis, or the synthesis of the utterance failed.
\* It is not rejected because a stopSpeaking() or a later request cancelled
\* its utterance.
C20_RejectedOnlyOnTotalFailure ==
  \A k \in DOMAIN requests :
    requests[k].promise = "rejected" =>
      /\ requests[k].pc = "fallback"
      /\ requests[k].error \in {"not supported", "synthesis-failed"}


\* C21: the audio element is created at most once per page session and
\* never recreated: once it exists, no step of speak(), stopSpeaking() or
\* playback leaves the module without it, so that getPersistentAudio never
\* constructs a second one.
C21_ElementCreatedOnce ==
  [][persistentAudio.created => persistentAudio'.created]_vars

\* The element has played two requests and stopSpeaking() has just run.
C21_Witness ==
  /\ persistentAudio.created
  /\ lastCall = "stopSpeaking"
  /\ \E e1, e2 \in heard :
       e1.path = "audio" /\ e2.path = "audio" /\ e1.request # e2.request

\* C22 (as claimed): at any time at most one blob URL created by
\* fetchAndPlayAudio is unreleased.
C22_OneBlobUrlUnreleased == Cardinality(objectUrls) <= 1

\* C23 (as claimed): a speak() issued while another narration is in flight
\* interrupts it: audio of a request does not play to its end once a later
\* request has been made.
C23_LastSpeakWins ==
  [][(audioPlaying /\ persistentAudio.src < Len(requests))
       => persistentAudio'.media # "ended"]_vars

\* The fetch of /api/speak for request j is pending.
fetching(j) == j \in DOMAIN requests /\ requests[j].pc = "fetch"

\* C24 (as claimed): a synthesis request that never completes does not block
\* later requests: when the fetch of a request stays pending for ever, every
\* request queued behind it is still eventually taken or resolved, without
\* a call of stopSpeaking().
C24_HungCallDoesNotBlock ==
  \A j, k \in Requests :
    (<>[]fetching(j))
      => ( (k \in DOMAIN requests /\ requests[k].pc = "queued")
             ~> (k \in DOMAIN requests /\ requests[k].pc # "queued") )

\* ------------------------------------------------------------------------
\* Triggers: App.jsx, FunFactCard.jsx, ArrivalModal
\* ------------------------------------------------------------------------
\* A value of React state or of a ref is Null or a record; an id is 0 where
\* the code has null.  The operators below transform the record n of the
\* components' state; an action is one handler, timer callback or
\* continuation, followed by the effects of the render it causes.

\* 15 * 60 * 1000 ms, in minutes
PROGRESS_ANNOUNCEMENT_INTERVAL == 15

\* The GPS positions of the model: points of a road, the place name reverse
\* geocoding has for them and their mile along the road.
Positions ==
  { [place |-> Str(<<W("Springfield"), COMMA, WS, W("Illinois")>>), mile |-> 0],
    [place |-> Str(<<W("Springfield"), COMMA, WS, W("Illinois")>>), mile |-> 6],
    [place |-> Str(<<W("Shelbyville"), COMMA, WS, W("Illinois")>>), mile |-> 7] }

\* The destinations the user can select: id, and the place name reverse
\* geocoding has for the coordinates.
Destinations ==
  { [id |-> 1, place |-> Str(<<W("Capital City"), COMMA, WS, W("Illinois")>>)],
    [id |-> 2, place |-> Str(<<W("Shelbyville"), COMMA, WS, W("Illinois")>>)] }

Ui ==
  [app |-> app, card |-> card, debounce |-> debounce, tasks |-> tasks,
   sinceFact |-> sinceFact, unhandled |-> unhandled, panel |-> panel]

\* The components show n; ev is what the trigger evaluation of the step saw
\* (Null: the step was none, or it got no place name: skip).
Commits(n, ev, skip) ==
  /\ BagCardinality(n.tasks) <= MaxTasks
  /\ app' = n.app
  /\ card' = n.card
  /\ debounce' = n.debounce
  /\ tasks' = n.tasks
  /\ sinceFact' = n.sinceFact
  /\ unhandled' = n.unhandled
  /\ panel' = n.panel
  /\ evaluation' = ev
  /\ skipped' = skip
  /\ UNCHANGED <<acquisition, narration>>

Shows(n, ev) == Commits(n, ev, FALSE)

\* An asynchronous function is called and runs to its first await, or is
\* resumed and runs to its next one: pc names the await, `at` and lastPlace
\* are what its closure has captured, place what it has computed.
run(n, fn, pc, at, lastPlace, place) ==
  [n EXCEPT !.tasks = @ (+) SetToBag({[fn |-> fn, pc |-> pc, at |-> at,
                                       lastPlace |-> lastPlace, place |-> place]})]

\* The asynchronous function t is resumed (and returns, unless it runs to
\* another await).
returns(n, t) == [n EXCEPT !.tasks = @ (-) SetToBag({t})]

\* place.split(',')[0].trim()
shortPlace(place) == Str(trim(splitFirst(place.s)))

\* useEffect(..., [destination]): reset tracking when destination changes
resetEffect(n) ==
  IF n.app.destination = Null
    THEN [n EXCEPT !.card.announcedDestination = 0,
                   !.card.hasReadInitialFact = FALSE]
    ELSE n

\* useEffect(..., [destination?.id]): fetchDestinationFact()
destinationFactEffect(n) ==
  LET d == n.app.destination
  IN IF d = Null THEN n
     ELSE IF n.card.announcedDestination = d.id /\ n.card.funFact # Null THEN n
     ELSE run([n EXCEPT !.card.isLoading = TRUE],
              "fetchDestinationFact", "getFunFact", d, Null, Null)

\* The announce effect without the test of announcedDestinationRef.
announceEffect_always(n) ==
  LET d == n.app.destination
  IN IF d = Null \/ n.app.route = Null THEN n
     ELSE run([n EXCEPT !.card.announcedDestination = d.id,
                        !.card.hasReadInitialFact = FALSE],
              "announceTrip", "speak", Null, Null, Null)

\* useEffect(..., [destination, route]): announceTrip(), up to its first
\* speak(announcement)
announceEffect(n) ==
  LET d == n.app.destination
  IN IF d = Null \/ n.app.route = Null THEN n
     ELSE IF n.card.announcedDestination = d.id THEN n
     ELSE run([n EXCEPT !.card.announcedDestination = d.id,
                        !.card.hasReadInitialFact = FALSE],
              "announceTrip", "speak", Null, Null, Null)

\* The position effect without its cleanup: a timeout that is pending is
\* left to fire and the update adds none.
positionEffect_throttles(n) ==
  IF n.app.userPosition = Null \/ n.app.destination = Null THEN n
  ELSE IF ~n.card.hasReadInitialFact THEN n
  ELSE IF n.debounce # Null THEN n
  ELSE [n EXCEPT !.debounce = [position |-> n.app.userPosition,
                               lastPlace |-> n.card.lastPlace,
                               cleared |-> Null]]

\* useEffect(..., [position, isActive, lastPlace]): the cleanup of the
\* previous run clears its timeout; the guards; setTimeout(fetchFunFact, 2000).
\* `cleared` remembers the position of the timeout the cleanup cancelled.
positionEffect(n) ==
  IF n.app.userPosition = Null \/ n.app.destination = Null
    THEN [n EXCEPT !.debounce = Null]
  ELSE IF ~n.card.hasReadInitialFact
    THEN [n EXCEPT !.debounce = Null]
  ELSE [n EXCEPT !.debounce = [position |-> n.app.userPosition,
                               lastPlace |-> n.card.lastPlace,
                               cleared |-> IF n.debounce = Null THEN Null
                                           ELSE n.debounce.position]]

\* App: the arrival effect and the reset of the celebration; ArrivalModal:
\* the effect on [isOpen, destinationName], whose speak(message) has no
\* handler.
arrivalEffects(o, n, fresh) ==
  LET d == n.app.destination
      r == n.app.route
      moved == o.app.destination # d
      n1 == IF (moved \/ "route" \in fresh) /\ d # Null /\ r # Null
              THEN IF r.arrived /\ n.app.celebrated # d.id
                     THEN [n EXCEPT !.app.celebrated = d.id,
                                    !.app.showArrivalModal = TRUE]
                     ELSE n
              ELSE n
      n2 == IF moved /\ d = Null THEN [n1 EXCEPT !.app.celebrated = 0] ELSE n1
  IN IF n2.app.showArrivalModal = o.app.showArrivalModal /\ ~moved THEN n2
     ELSE IF ~n2.app.showArrivalModal THEN [n2 EXCEPT !.app.hasSpoken = FALSE]
     ELSE IF n2.app.hasSpoken THEN n2
     ELSE run([n2 EXCEPT !.app.hasSpoken = TRUE], "ArrivalModal", "speak",
              Null, Null, Null)

\* ProgressPanel, useEffect(..., [route]): the cleanup of the previous run
\* clears its interval; setInterval(..., PROGRESS_ANNOUNCEMENT_INTERVAL)
progressEffect(n) ==
  IF n.app.route = Null
    THEN [n EXCEPT !.panel = [interval |-> Null, waited |-> 0]]
    ELSE [n EXCEPT !.panel.interval = [age |-> 0]]

\* React renders after the state o became n and runs, in the order of their
\* declaration, the effects whose dependencies changed.  `fresh` names the
\* props that received a new object (a new object is a change even when its
\* content is the same).
render(o, n, fresh) ==
  LET id(d) == IF d = Null THEN 0 ELSE d.id
      moved == o.app.destination # n.app.destination
      n1 == IF moved THEN resetEffect(n) ELSE n
      n2 == IF id(o.app.destination) # id(n.app.destination)
              THEN destinationFactEffect(n1) ELSE n1
      n3 == IF moved \/ "route" \in fresh THEN announceEffect(n2) ELSE n2
      n4 == IF \/ "position" \in fresh
               \/ (o.app.destination = Null) # (n.app.destination = Null)
               \/ o.card.lastPlace # n.card.lastPlace
              THEN positionEffect(n3) ELSE n3
      n5 == IF "route" \in fresh \/ o.app.route # n.app.route
              THEN progressEffect(n4) ELSE n4
  IN arrivalEffects(o, n5, fresh)

\* App.handleDestinationSelect(place)
handleDestinationSelect(place) ==
  /\ place # app.destination
  /\ LET n == [Ui EXCEPT !.app.destination = place,
                         !.app.route = IF place = Null THEN Null ELSE @]
     IN Shows(render(Ui, n, IF place = Null THEN {"route"} ELSE {}), Null)

\* App.handleRouteCalculated(routeData): Map has a route from the position
\* to the destination; arrived: route.distanceMiles <= 0.1.
handleRouteCalculated(arrived) ==
  /\ app.destination # Null
  /\ app.userPosition # Null
  /\ LET n == [Ui EXCEPT !.app.route = [arrived |-> arrived]]
     IN Shows(render(Ui, n, {"route"}), Null)

\* App.handlePositionChange(position): a GPS update; the car drives down the
\* road or stands.
handlePositionChange(p) ==
  /\ app.userPosition # Null => p.mile >= app.userPosition.mile
  /\ Shows(render(Ui, [Ui EXCEPT !.app.userPosition = p], {"position"}), Null)

\* App.handleArrivalModalClose()
handleArrivalModalClose ==
  /\ app.showArrivalModal
  /\ Shows(render(Ui, [Ui EXCEPT !.app.showArrivalModal = FALSE], {}), Null)

\* The timeout of the position effect fires: fetchFunFact() runs to
\* await getPlaceName(position).
debounce_fires ==
  /\ debounce # Null
  /\ Shows(run([Ui EXCEPT !.debounce = Null], "fetchFunFact", "getPlaceName",
               debounce.position, debounce.lastPlace, Null), Null)

\* fetchFunFact without `if (!place) return`: place.split throws and the
\* catch calls setIsLoading(false).
fetchFunFact_onPlaceName_unguarded(t, answered) ==
  /\ t.fn = "fetchFunFact"
  /\ t.pc = "getPlaceName"
  /\ LET place == IF answered THEN t.at.place ELSE Null
         short == shortPlace(place)
         saw(b) == [place |-> short, was |-> card.lastPlace,
                    mile |-> t.at.mile, started |-> b]
     IN IF place = Null
          THEN Commits([returns(Ui, t) EXCEPT !.card.isLoading = FALSE], Null, TRUE)
        ELSE IF short = t.lastPlace
          THEN Shows(returns(Ui, t), saw(FALSE))
        ELSE LET n == [returns(Ui, t) EXCEPT !.card.isLoading = TRUE,
                                             !.card.lastPlace = short]
             IN Shows(render(Ui, run(n, t.fn, "getFunFact", t.at, Null, place),
                             {}),
                      saw(TRUE))

\* fetchFunFact: getPlaceName(position) has settled, with the place name or
\* with null; the place is compared with the lastPlace of the closure;
\* setIsLoading, setLastPlace, stopSpeaking(), then await getFunFact(place).
fetchFunFact_onPlaceName(t, answered) ==
  /\ t.fn = "fetchFunFact"
  /\ t.pc = "getPlaceName"
  /\ LET place == IF answered THEN t.at.place ELSE Null
         short == shortPlace(place)
         saw(b) == [place |-> short, was |-> card.lastPlace,
                    mile |-> t.at.mile, started |-> b]
     IN IF place = Null
          THEN Commits(returns(Ui, t), Null, TRUE)
        ELSE IF short = t.lastPlace
          THEN Shows(returns(Ui, t), saw(FALSE))
        ELSE LET n == [returns(Ui, t) EXCEPT !.card.isLoading = TRUE,
                                             !.card.lastPlace = short]
             IN Shows(render(Ui, run(n, t.fn, "getFunFact", t.at, Null, place),
                             {}),
                      saw(TRUE))

\* fetchFunFact: getFunFact(place) has returned its fact (it returns a
\* generic fact where it fails) and the 300 ms are over: setFunFact,
\* setIsLoading(false), await speak(fact).
fetchFunFact_onFunFact(t) ==
  /\ t.fn = "fetchFunFact"
  /\ t.pc = "getFunFact"
  /\ LET n == [returns(Ui, t) EXCEPT
                 !.card.funFact = [about |-> shortPlace(t.place)],
                 !.card.isLoading = FALSE,
                 !.sinceFact = [minutes |-> 0, mile |-> t.at.mile]]
     IN Shows(render(Ui, run(n, t.fn, "speak", Null, Null, Null), {}), Null)

\* fetchDestinationFact: getPlaceName(destination.coordinates) has answered
\* the place, getFunFact(placeForFact, true) has returned and the 300 ms are
\* over: setFunFact, setLastPlace(shortPlace), setIsLoading(false).
fetchDestinationFact_onFunFact(t) ==
  /\ t.fn = "fetchDestinationFact"
  /\ LET short == shortPlace(t.at.place)
         here == IF app.userPosition = Null THEN 0 ELSE app.userPosition.mile
         n == [returns(Ui, t) EXCEPT !.card.funFact = [about |-> short],
                                     !.card.lastPlace = short,
                                     !.card.isLoading = FALSE,
                                     !.sinceFact = [minutes |-> 0, mile |-> here]]
     IN Shows(render(Ui, n, {}), Null)

\* announceTrip after the announcement and the second of waiting: the loop
\* polls funFactRef for at most 20 * 250 ms, then the fact is read if there
\* is one and it was not read.
announceTrip_onWait(t) ==
  /\ t.fn = "announceTrip"
  /\ t.pc = "wait"
  /\ IF card.funFact # Null /\ ~card.hasReadInitialFact
       THEN Shows(run([returns(Ui, t) EXCEPT !.card.hasReadInitialFact = TRUE],
                      t.fn, "read", Null, Null, Null), Null)
       ELSE Shows(returns(Ui, t), Null)

\* The promise of the speak() that function t awaits (or, in ArrivalModal,
\* does not keep) is settled.
speak_settles(t, resolved) ==
  /\ t.pc \in {"speak", "read"}
  /\ CASE t.fn = "announceTrip" /\ t.pc = "speak" /\ resolved ->
            Shows(run(returns(Ui, t), t.fn, "wait", Null, Null, Null), Null)
       [] t.fn = "ArrivalModal" /\ ~resolved ->
            Shows([returns(Ui, t) EXCEPT !.unhandled = TRUE], Null)
       [] OTHER -> Shows(returns(Ui, t), Null)

\* Five minutes pass on the clock of the facts.
Tick ==
  /\ sinceFact.minutes < MaxMinutes
  /\ Shows([Ui EXCEPT !.sinceFact.minutes = @ + 5], Null)

\* Five minutes of a trip pass on the clock of ProgressPanel; an interval
\* that is due fires before more time passes.
Elapse ==
  /\ app.route # Null
  /\ panel.interval.age < PROGRESS_ANNOUNCEMENT_INTERVAL
  /\ panel.waited < 2 * MaxMinutes
  /\ Shows([Ui EXCEPT !.panel.interval.age = @ + 5,
                      !.panel.waited = @ + 5], Null)

\* The callback of the interval of ProgressPanel: speak(announcement), with
\* a handler of its rejection; the interval runs on.
interval_fires ==
  /\ panel.interval # Null
  /\ panel.interval.age = PROGRESS_ANNOUNCEMENT_INTERVAL
  /\ Shows(run([Ui EXCEPT !.panel = [interval |-> [age |-> 0], waited |-> 0]],
               "ProgressPanel", "speak", Null, Null, Null), Null)

\* A page session of the components; the deployment and the browser are
\* fixed.
CardInit ==
  /\ TripInit
  /\ window = [speechSynthesis |-> TRUE, onCancel |-> "error"]
  /\ NarrationInit
  /\ env = [isProduction |-> TRUE, ANTHROPIC_API_KEY |-> TRUE,
            OPENAI_API_KEY |-> TRUE, strategy |-> "search"]
  /\ client = IdleClient
  /\ req = NoReq
  /\ h = IdleHandler
  /\ res = NoRes
  /\ calls = [generate |-> 0, verify |-> 0, speech |-> 0]
  /\ attempts = << >>
  /\ upstream = [gen |-> "none", ver |-> "none", answer |-> Undef]

\* The timers and continuations the event loop runs.
CardEvents ==
  \/ debounce_fires
  \/ \E t \in BagToSet(tasks), answered \in BOOLEAN :
       fetchFunFact_onPlaceName(t, answered)
  \/ \E t \in BagToSet(tasks) : fetchFunFact_onFunFact(t)
  \/ \E t \in BagToSet(tasks) : fetchDestinationFact_onFunFact(t)
  \/ \E t \in BagToSet(tasks) : announceTrip_onWait(t)
  \/ \E t \in BagToSet(tasks), resolved \in BOOLEAN : speak_settles(t, resolved)

CardNext ==
  \/ \E place \in Destinations \cup {Null} : handleDestinationSelect(place)
  \/ handleRouteCalculated(FALSE)
  \/ \E p \in Positions : handlePositionChange(p)
  \/ Tick
  \/ CardEvents

\* A trip before the arrival: every route is longer than 0.1 miles.
CardSpec == CardInit /\ [][CardNext]_vars

\* The arrival: one destination at the end of the road, the last miles of
\* the road, routes of any length, the celebration and its message.
ArrivalNext ==
  \/ \E place \in {d \in Destinations : d.id = 2} \cup {Null} :
       handleDestinationSelect(place)
  \/ \E arrived \in BOOLEAN : handleRouteCalculated(arrived)
  \/ \E p \in {q \in Positions : q.mile >= 6} : handlePositionChange(p)
  \/ handleArrivalModalClose
  \/ CardEvents

ArrivalSpec == CardInit /\ [][ArrivalNext]_vars

\* The event loop runs the timers that are due and the continuations of
\* settled promises; the user and the GPS are free to do nothing.
FairCardSpec == CardSpec /\ WF_vars(CardEvents)

\* Trips with their progress announcements, seen from one place of the
\* road.
ProgressNext ==
  \/ \E place \in Destinations \cup {Null} : handleDestinationSelect(place)
  \/ handleRouteCalculated(FALSE)
  \/ \E p \in {q \in Positions : q.mile = 7} : handlePositionChange(p)
  \/ Elapse
  \/ interval_fires
  \/ CardEvents

ProgressSpec == CardInit /\ [][ProgressNext]_vars

\* ------------------------------------------------------------------------
\* Properties of the triggers
\* ------------------------------------------------------------------------

\* C25 (as claimed): no rejection of a promise returned by speak() is left
\* without a handler, at any call site.
C25_NoUnhandledRejection == unhandled = FALSE

\* Position-based triggers are enabled: a trip is active and its initial
\* fact has been read.
triggersEnabled ==
  /\ app.destination # Null
  /\ app.userPosition # Null
  /\ card.hasReadInitialFact

\* Miles between the position of the evaluation and that of the last fact.
milesSinceFact ==
  IF evaluation.mile >= sinceFact.mile
    THEN evaluation.mile - sinceFact.mile
    ELSE sinceFact.mile - evaluation.mile

\* C26 (as claimed): with triggers enabled, a trigger evaluation starts an
\* acquisition when the place differs from lastPlace, and starts none when
\* the place is lastPlace, less than 5 minutes have passed and less than 5
\* miles were driven since the last fact.
C26_PlaceTrigger ==
  (evaluation # Null /\ triggersEnabled) =>
    /\ evaluation.place # evaluation.was => evaluation.started
    /\ ( /\ evaluation.place = evaluation.was
         /\ sinceFact.minutes < 5
         /\ milesSinceFact < 5 ) => ~evaluation.started

\* Nothing is pending: no timeout, no asynchronous function in flight.
idle == debounce = Null /\ tasks = EmptyBag

\* C27 (as claimed): with triggers enabled and the place unchanged, an
\* acquisition is started once 5 minutes have passed since the last fact,
\* also without position updates: the session is never found idle more than
\* 5 minutes after the last fact.
C27_TimeTrigger ==
  ( /\ triggersEnabled
    /\ idle
    /\ shortPlace(app.userPosition.place) = card.lastPlace )
    => sinceFact.minutes <= 5

\* C28 (as claimed): with triggers enabled, the place unchanged and less
\* than 5 minutes passed, a trigger evaluation 5 miles or more from the
\* position of the last fact starts an acquisition.
C28_DistanceTrigger ==
  ( /\ evaluation # Null
    /\ triggersEnabled
    /\ evaluation.place = evaluation.was
    /\ sinceFact.minutes < 5
    /\ milesSinceFact >= 5 ) => evaluation.started

\* The position-triggered acquisitions in flight.
acquiring == {t \in BagToSet(tasks) : t.fn = "fetchFunFact" /\ t.pc = "getFunFact"}

\* C29 (as claimed): at most one position-triggered acquisition is in
\* flight at any time.
C29_OneAcquisitionInFlight ==
  /\ Cardinality(acquiring) <= 1
  /\ \A t \in acquiring : CopiesIn(t, tasks) = 1

\* C30 (as claimed): after a destination is set or changed, no trigger
\* evaluation starts an acquisition before the initial fact of that
\* destination has been read: with a destination selected, none starts
\* while the marker hasReadInitialFactRef is false.
C30_NoTriggerBeforeInitialFact ==
  (evaluation # Null /\ evaluation.started /\ app.destination # Null)
    => card.hasReadInitialFact

\* C31 (as claimed): when the destination is cleared, lastPlace returns to
\* null together with the announced-destination and initial-fact-read
\* markers.
C31_ClearedDestinationResets ==
  [][(app.destination # Null /\ app'.destination = Null)
       => /\ card'.lastPlace = Null
          /\ card'.announcedDestination = 0
          /\ ~card'.hasReadInitialFact]_vars

\* C32: position updates are debounced.  A timeout that is pending is the
\* one of the latest position update: the timeout of every earlier update
\* of the burst was cleared, so that the triggers are evaluated once, for
\* the last position.
C32_DebounceKeepsLastPosition ==
  debounce # Null => debounce.position = app.userPosition

\* A position update arrived while the timeout of an earlier position was
\* pending, and the pending timeout is the one of the later position.
C32_Witness ==
  /\ debounce # Null
  /\ debounce.cleared # Null
  /\ debounce.cleared.mile < debounce.position.mile

\* C33 (as claimed): while a route is active the progress is announced
\* every 15 minutes, also when route updates keep arriving: no trip is under
\* way for more than 15 minutes since its start or its last announcement.
C33_ProgressEveryQuarterHour ==
  app.route # Null => panel.waited <= PROGRESS_ANNOUNCEMENT_INTERVAL

\* C34 (as claimed): lastPlace advances to a new place only when the
\* acquisition for that place has completed: a step that changes lastPlace
\* is the step that shows the fact of the new place, and none is pending for
\* it then.
C34_LastPlaceAfterAcquisition ==
  [][card'.lastPlace # card.lastPlace
       => /\ card'.funFact = [about |-> card'.lastPlace]
          /\ \A t \in BagToSet(tasks') :
               t.pc = "getFunFact" /\ t.fn = "fetchFunFact"
                 => shortPlace(t.place) # card'.lastPlace]_vars

\* C35 (as claimed): enqueuing a request resolves at once the requests
\* queued before it and not yet started: only the newest item of the queue
\* has a pending promise.
C35_SupersededResolvedAtOnce ==
  \A i \in 1..(Len(speechQueue) - 1) :
    requests[speechQueue[i]].promise # "pending"

\* No acquisition of a fact is pending.
settled ==
  \A t \in BagToSet(tasks) : t.pc \notin {"getPlaceName", "getFunFact"}

\* C36 (as claimed): when acquisitions overlap, the fact finally displayed
\* is the one of the most recently detected place: once no acquisition is
\* pending, the fact shown is the fact of lastPlace.
C36_LatestPlaceWins ==
  (settled /\ card.lastPlace # Null) => card.funFact = [about |-> card.lastPlace]

\* announceTrip has spoken the announcement and waits for the fact.
announcementDone ==
  \E t \in BagToSet(tasks) : t.fn = "announceTrip" /\ t.pc = "wait"

\* C37 (as claimed): once the announcement of the trip has finished, the
\* initial fact is eventually read and the position-based triggers become
\* enabled, however late the fact of the destination arrives, unless the
\* destination is cleared.
C37_TriggersEventuallyEnabled ==
  announcementDone ~> (card.hasReadInitialFact \/ app.destination = Null)

\* announceTrip at its speak(announcement).
announcing ==
  [fn |-> "announceTrip", pc |-> "speak", at |-> Null, lastPlace |-> Null,
   place |-> Null]

\* C38: the announcement of a trip is started at most once while its
\* destination stays selected, however many route updates arrive: a step
\* that starts it selects another destination or brings the first route
\* since the destination was cleared.
C38_AnnouncedOncePerDestination ==
  [][CopiesIn(announcing, tasks') > CopiesIn(announcing, tasks)
       => (app'.destination # app.destination \/ app.route = Null)]_vars

\* The trip was announced, the announcement is over, and a route update has
\* arrived since (it has restarted the interval of ProgressPanel minutes
\* into the trip) without starting another.
C38_Witness ==
  /\ app.destination # Null
  /\ card.announcedDestination = app.destination.id
  /\ panel.interval # Null
  /\ panel.waited > panel.interval.age
  /\ \A t \in BagToSet(tasks) : t.fn # "announceTrip"

\* C39: when getPlaceName returns null, fetchFunFact returns: the step
\* starts no acquisition (it only ends the function that asked), leaves
\* lastPlace, the displayed fact and the loading flag as they were, sets no
\* timeout, and is no trigger evaluation, so that nothing is stopped or
\* started by it.
C39_NoPlaceNoEffect ==
  [][skipped'
       => /\ card' = card
          /\ debounce' = debounce
          /\ evaluation' = Null
          /\ BagCardinality(tasks') = BagCardinality(tasks) - 1
          /\ \A t \in BagToSet(tasks') : CopiesIn(t, tasks') <= CopiesIn(t, tasks)]_vars

\* Reverse geocoding has just failed while the fact of another place was
\* loading and shown.
C39_Witness ==
  /\ skipped
  /\ card.isLoading
  /\ card.funFact # Null
  /\ card.lastPlace # Null

=============================================================================
